---- MODULE Spec2Model ----
(***************************************************************************)
(* Model of the realtime STT terminal client, src/websocket_minimal_editor.py: *)
(* the provisional-text reconciler of MinimalSTTEditor (a prompt_toolkit   *)
(* Buffer plus current_text / realtime_start_pos) and the recording state  *)
(* machine of WebSocketSTTClient; and of the inbound path of the Tk        *)
(* client, src/transcription_editor.py, fed by the same server broadcast.  *)
(* The audio path follows: the message send_audio_chunk builds, the data   *)
(* handler and the recorder callbacks of STTServer                        *)
(* (src/mic_stream_py/server/stt_server.py); then the retry wrapper of     *)
(* ParakeetClient and the POST /transcribe handler of HTTPTranscribeServer.*)
(* Last come the control handler, the broadcast and the start of           *)
(* STTServer, and the batch editor of src/mic_stream_py/client/            *)
(* minimal_editor.py with its AudioBuffer.                                 *)
(*                                                                         *)
(* Text is a sequence of one-character strings.  The two objects are the   *)
(* record-valued variables editor and stt_client; every method is a pure   *)
(* operator from the object's record to the record after the call, and     *)
(* every action applies one whole handler.                                 *)
(***************************************************************************)
EXTENDS Integers, Sequences, FiniteSets, TLC

VARIABLES
    editor,       \* MinimalSTTEditor: buffer text, cursor, current_text, realtime_start_pos, clipboard
    stt_client,   \* WebSocketSTTClient: channels, flags, capture handle, tasks, sent commands
    hist,         \* history: the last two text messages handled since the user last acted,
                  \*          each with the editor state it found
    call,         \* history: the last client operation and the client state it found
    received,     \* history: the number of text messages handled
    finals,       \* history: the non-blank final sentences committed while the user had not acted
    edited,       \* history: TRUE once the user has moved the cursor or edited the document
    data_channel, \* per client, the messages the server has written to its data channel
                  \*             that its inbound loop has not taken yet
    transcription_editor,  \* TranscriptionEditor: channels, flags, Tk timer queue, widgets
    inbound,      \* history: per client, the messages written to its data channel (received)
                  \*          and the messages its inbound loop has taken (handled), in order
    framing,      \* one audio message: the chunk and metadata given to the client encoder,
                  \*          the message built, what the server decodes from the bytes that arrive
    outbound,     \* the audio messages of stt_client in flight to the server, and as history
                  \*          the chunks the capture loop read and sent
    stt_server,   \* STTServer: recorder, data connection of stt_client, audio_queue, utterance
    parakeet_client,  \* ParakeetClient: one call of transcribe_with_retry
    http_server,  \* HTTPTranscribeServer: transcriber, the last request and its answer
    minimal_editor  \* the batch editor (client/minimal_editor.py): flags, status bar,
                  \*          AudioBuffer, the tasks created by F5 and where each one is

vars == <<editor, stt_client, hist, call, received, finals, edited,
          data_channel, transcription_editor, inbound, framing, outbound, stt_server,
          parakeet_client, http_server, minimal_editor>>

\* the state of the servers and of the audio path
services == <<framing, outbound, stt_server, parakeet_client, http_server, minimal_editor>>

\* the state of the broadcast, of the Tk client and of the server
others == <<data_channel, transcription_editor, inbound, services>>

-----------------------------------------------------------------------------
(* Bounds and input domains *)

\* text messages handled in one session
MaxMsgs == 2
\* the user types only while the document is shorter than this
MaxTyped == 2
\* capture streams the model lets be open at once, and capture tasks alive at once
MaxHandles == 2
\* messages the server broadcasts in one session
MaxBroadcast == 2
\* chunks the capture loop reads in one session, and binary messages a data
\* client writes in one session
MaxChunks == 3
\* the largest max_retries transcribe_with_retry is called with
MaxRetries == 2
\* requests the HTTP server answers in one run
MaxRequests == 3
MaxCommands == 3
MaxPresses == 4
MaxReads == 5

\* Python's None for realtime_start_pos (offsets are >= 0)
None == -1

\* characters the user types (letter, space, newline)
TypedChars == {"a", " ", "\n"}

\* texts the user pastes into the document: a tab, a word and a tab
PastedTexts == { <<"\t">>, <<"a", "\t">> }

\* texts the server sends in realtime / fullSentence messages: empty, blank,
\* two plain ones, one with outer whitespace
Texts == { <<>>, <<" ">>, <<"a">>, <<"b">>, <<"a", " ">> }

\* texts the recorder hands to its callbacks: empty, blank, plain, with
\* leading whitespace, an ellipsis alone and before a word
RecorderTexts ==
    { <<>>, <<" ">>, <<"a">>, <<" ", "b">>, <<".", ".", ".">>, <<".", ".", ".", " ", "a">> }

\* sample rates of a capture device, and clock readings of time.time()
SampleRates == {16000, 44100}
Timestamps == {0, 12}

\* audio byte strings: empty, one byte, bytes that are no text, bytes that
\* read as JSON tokens
AudioData == { <<>>, <<1>>, <<2, 255>>, <<125, 0, 44>> }

\* chunks the capture device delivers
Chunks == { <<1>>, <<2, 255>> }

-----------------------------------------------------------------------------
(* Python str helpers *)

\* str.strip() strips these
Whitespace == {" ", "\t", "\n"}

RECURSIVE lstrip(_)
lstrip(s) ==
    IF s # <<>> /\ Head(s) \in Whitespace THEN lstrip(Tail(s)) ELSE s

RECURSIVE rstrip(_)
rstrip(s) ==
    IF s # <<>> /\ s[Len(s)] \in Whitespace
    THEN rstrip(SubSeq(s, 1, Len(s) - 1))
    ELSE s

strip(s) == rstrip(lstrip(s))

\* s.endswith(' ')
endswith_space(s) == s # <<>> /\ s[Len(s)] = " "

-----------------------------------------------------------------------------
(* prompt_toolkit Buffer / Document, as the editor uses them *)

\* Document.current_line_before_cursor: the text between the last newline
\* before the cursor and the cursor
current_line_before_cursor(ed) ==
    LET before == SubSeq(ed.text, 1, ed.cursor_position)
        nls == { i \in 1..Len(before) : before[i] = "\n" }
        from == IF nls = {} THEN 0 ELSE CHOOSE i \in nls : \A j \in nls : j <= i
    IN  SubSeq(before, from + 1, Len(before))

\* Buffer.insert_text(data): insert at the cursor, cursor moves behind the data
insert_text(ed, data) ==
    [ed EXCEPT
        !.text = SubSeq(ed.text, 1, ed.cursor_position) \o data
                 \o SubSeq(ed.text, ed.cursor_position + 1, Len(ed.text)),
        !.cursor_position = ed.cursor_position + Len(data)]

\* Buffer.delete(): delete the character after the cursor, if there is one
delete(ed) ==
    IF ed.cursor_position < Len(ed.text)
    THEN [ed EXCEPT
            !.text = SubSeq(ed.text, 1, ed.cursor_position)
                     \o SubSeq(ed.text, ed.cursor_position + 2, Len(ed.text))]
    ELSE ed

RECURSIVE delete_n(_, _)
\* for _ in range(n): self.buffer.delete()
delete_n(ed, n) ==
    IF n <= 0 THEN ed ELSE delete_n(delete(ed), n - 1)

\* Buffer.cursor_position = value (clamped to the text)
set_cursor_position(ed, value) ==
    [ed EXCEPT !.cursor_position =
        IF value > Len(ed.text) THEN Len(ed.text)
        ELSE IF value < 0 THEN 0 ELSE value]

\* Buffer.text = value (the cursor is kept inside the new text)
set_text(ed, value) ==
    [ed EXCEPT
        !.text = value,
        !.cursor_position =
            IF ed.cursor_position > Len(value) THEN Len(value)
            ELSE ed.cursor_position]

\* ClipboardManager.copy_text(text): pyperclip.copy, taken to succeed
copy_text(ed, text) ==
    [ed EXCEPT !.clipboard = text, !.copied = TRUE]

-----------------------------------------------------------------------------
(* MinimalSTTEditor: the reconciler *)

\* the leading-space rule shared by add_realtime_text and insert_text_at_cursor
with_leading_space(ed, text) ==
    LET current_line == current_line_before_cursor(ed)
    IN  IF current_line # <<>> /\ ~endswith_space(current_line)
        THEN <<" ">> \o text
        ELSE text

\* mutant: the start offset is recorded after the insertion
add_realtime_text_records_end(ed, text) ==
    IF strip(text) # <<>>
    THEN LET ed1 == insert_text(ed, with_leading_space(ed, text))
         IN  [ed1 EXCEPT !.realtime_start_pos = ed1.cursor_position]
    ELSE ed

add_realtime_text(ed, text) ==
    IF strip(text) # <<>>
    THEN insert_text([ed EXCEPT !.realtime_start_pos = ed.cursor_position],
                     with_leading_space(ed, text))
    ELSE ed

\* mutant: the span is forgotten but its characters are not deleted
remove_realtime_text_keeps(ed) ==
    IF ed.realtime_start_pos # None /\ ed.current_text # <<>>
    THEN [ed EXCEPT !.realtime_start_pos = None]
    ELSE ed

remove_realtime_text(ed) ==
    IF ed.realtime_start_pos # None /\ ed.current_text # <<>>
    THEN LET current_pos == ed.cursor_position
             chars_to_delete == current_pos - ed.realtime_start_pos
             ed1 == IF chars_to_delete > 0
                    THEN delete_n(set_cursor_position(ed, ed.realtime_start_pos),
                                  chars_to_delete)
                    ELSE ed
         IN  [ed1 EXCEPT !.realtime_start_pos = None]
    ELSE ed

\* mutant: a space is put before the text wherever the cursor stands
insert_text_at_cursor_always_spaced(ed, text) ==
    insert_text(ed, <<" ">> \o text)

insert_text_at_cursor(ed, text) ==
    insert_text(ed, with_leading_space(ed, text))

\* mutant: the provisional text is remembered as received, not stripped
on_realtime_text_received_keeps_raw(ed, text) ==
    IF text # ed.current_text
    THEN LET ed1 == remove_realtime_text(ed)
             ed2 == [ed1 EXCEPT !.current_text = text]
         IN  IF ed2.current_text # <<>>
             THEN add_realtime_text(ed2, ed2.current_text)
             ELSE ed2
    ELSE ed

\* mutant: the old provisional text is not removed before the new one is added
on_realtime_text_received_appends(ed, text) ==
    IF text # ed.current_text
    THEN LET ed2 == [ed EXCEPT !.current_text = strip(text)]
         IN  IF ed2.current_text # <<>>
             THEN add_realtime_text(ed2, ed2.current_text)
             ELSE ed2
    ELSE ed

on_realtime_text_received(ed, text) ==
    IF text # ed.current_text
    THEN LET ed1 == remove_realtime_text(ed)
             ed2 == [ed1 EXCEPT !.current_text = strip(text)]
         IN  IF ed2.current_text # <<>>
             THEN add_realtime_text(ed2, ed2.current_text)
             ELSE ed2
    ELSE ed

\* mutant: the final text is inserted without removing the provisional text
on_stt_text_received_keeps_provisional(ed, text, is_final) ==
    IF is_final /\ strip(text) # <<>>
    THEN LET ed2 == [ed EXCEPT !.current_text = <<>>]
             ed3 == insert_text_at_cursor(ed2, text)
         IN  copy_text(ed3, text)
    ELSE ed

on_stt_text_received(ed, text, is_final) ==
    IF is_final /\ strip(text) # <<>>
    THEN LET ed1 == remove_realtime_text(ed)
             ed2 == [ed1 EXCEPT !.current_text = <<>>]
             ed3 == insert_text_at_cursor(ed2, text)
         IN  copy_text(ed3, text)
    ELSE ed

\* mutant: a fullSentence with blank text is ignored
dispatch_text_message_ignores_blank(ed, msg) ==
    IF msg.type = "realtime"
    THEN on_realtime_text_received(ed, msg.text)
    ELSE IF msg.type = "fullSentence" /\ strip(msg.text) # <<>>
    THEN on_stt_text_received(ed, msg.text, TRUE)
    ELSE ed

\* what WebSocketSTTClient.message_handler does to the editor for one
\* realtime / fullSentence message
dispatch_text_message(ed, msg) ==
    IF msg.type = "realtime"
    THEN on_realtime_text_received(ed, msg.text)
    ELSE IF msg.type = "fullSentence"
    THEN IF strip(msg.text) # <<>>
         THEN on_stt_text_received(ed, msg.text, TRUE)
         ELSE on_realtime_text_received(ed, <<>>)
    ELSE ed

TextMessages == [type : {"realtime", "fullSentence"}, text : Texts]

-----------------------------------------------------------------------------
(* WebSocketSTTClient *)

\* A channel field (control_ws, data_ws) is "none" (None), "open" or "closed"
\* (a connection object whose connection has ended).  audio_stream is "none",
\* "open" or "closed" (a Stream object that was closed); pyaudio_instance is
\* "none", "live" or "terminated".  open_streams counts the capture streams
\* the process holds open, referenced by audio_stream or not.  capture_tasks
\* and handler_tasks count the audio_capture_task / message_handler tasks that
\* have not returned.  sent, closes, audio and raised describe the last call
\* only: the control commands it sent, the Stream.close() calls it made, the
\* audio messages it wrote, and whether an exception left it.  closed_sends
\* counts (up to two) the send_audio_chunk calls made on the data channel
\* since it ended.  closing tells that a disconnect() call is suspended in one
\* of its awaits.

begin_call(cl) ==
    [cl EXCEPT !.sent = <<>>, !.closes = 0, !.audio = 0, !.raised = FALSE,
               !.read = "none"]

\* await self.control_ws.send(...) inside try/except: the command is written
\* when the channel is open, and the send raises otherwise
control_send_ok(cl) == cl.control_ws = "open"

\* mutant: is_recording is set before the device is opened and no except
\* clause resets it
start_recording_listens_early(cl0, device) ==
    LET cl == begin_call(cl0)
    IN  IF ~cl.is_connected THEN cl
        ELSE IF device = "no_pyaudio"
        THEN [cl EXCEPT !.is_recording = TRUE]
        ELSE IF device = "no_device"
        THEN [cl EXCEPT !.pyaudio_instance = "live", !.is_recording = TRUE]
        ELSE LET opened == [cl EXCEPT
                                !.pyaudio_instance = "live",
                                !.audio_stream = "open",
                                !.open_streams = cl.open_streams + 1,
                                !.is_recording = TRUE]
             IN  IF control_send_ok(opened)
                 THEN [opened EXCEPT
                          !.sent = Append(opened.sent, "start_recording"),
                          !.capture_tasks = opened.capture_tasks + 1]
                 ELSE [opened EXCEPT !.is_recording = FALSE]

\* device: "ok", "no_pyaudio" (pyaudio.PyAudio() raises) or "no_device"
\* (PyAudio.open raises)
start_recording(cl0, device) ==
    LET cl == begin_call(cl0)
    IN  IF ~cl.is_connected THEN cl
        ELSE IF device = "no_pyaudio"
        THEN [cl EXCEPT !.is_recording = FALSE]
        ELSE IF device = "no_device"
        THEN [cl EXCEPT !.pyaudio_instance = "live", !.is_recording = FALSE]
        ELSE LET opened == [cl EXCEPT
                                !.pyaudio_instance = "live",
                                !.audio_stream = "open",
                                !.open_streams = cl.open_streams + 1,
                                !.is_recording = TRUE]
             IN  IF control_send_ok(opened)
                 THEN [opened EXCEPT
                          !.sent = Append(opened.sent, "start_recording"),
                          !.capture_tasks = opened.capture_tasks + 1]
                 ELSE [opened EXCEPT !.is_recording = FALSE]

\* mutant: the capture stream is dropped without being closed
stop_recording_leaves_stream(cl0, closed_raises) ==
    LET cl == begin_call(cl0)
    IN  IF ~cl.is_recording THEN cl
        ELSE LET off == [cl EXCEPT !.is_recording = FALSE,
                                   !.audio_stream = "none",
                                   !.pyaudio_instance = "none"]
             IN  IF off.control_ws # "none" /\ control_send_ok(off)
                 THEN [off EXCEPT !.sent = Append(off.sent, "stop_recording")]
                 ELSE off

\* closed_raises: whether stop_stream() on an already closed Stream raises
\* (it depends on the PyAudio build)
stop_recording(cl0, closed_raises) ==
    LET cl == begin_call(cl0)
    IN  IF ~cl.is_recording THEN cl
        ELSE LET off == [cl EXCEPT !.is_recording = FALSE]
             IN  IF off.audio_stream = "closed" /\ closed_raises
                 THEN off
                 ELSE LET released ==
                              IF off.audio_stream = "none" THEN off
                              ELSE [off EXCEPT
                                      !.audio_stream = "none",
                                      !.closes = off.closes + 1,
                                      !.open_streams =
                                          IF off.audio_stream = "open"
                                          THEN off.open_streams - 1
                                          ELSE off.open_streams]
                          terminated == [released EXCEPT !.pyaudio_instance = "none"]
                      IN  IF terminated.control_ws # "none" /\ control_send_ok(terminated)
                          THEN [terminated EXCEPT
                                  !.sent = Append(terminated.sent, "stop_recording")]
                          ELSE terminated

\* mutant: the guard looks at is_paused only
pause_recording_unguarded(cl0) ==
    LET cl == begin_call(cl0)
    IN  IF cl.is_paused THEN cl
        ELSE LET paused == [cl EXCEPT !.is_paused = TRUE]
             IN  IF paused.control_ws # "none" /\ control_send_ok(paused)
                 THEN [paused EXCEPT !.sent = Append(paused.sent, "pause_recording")]
                 ELSE paused

pause_recording(cl0) ==
    LET cl == begin_call(cl0)
    IN  IF ~cl.is_recording \/ cl.is_paused THEN cl
        ELSE LET paused == [cl EXCEPT !.is_paused = TRUE]
             IN  IF paused.control_ws # "none" /\ control_send_ok(paused)
                 THEN [paused EXCEPT !.sent = Append(paused.sent, "pause_recording")]
                 ELSE paused

resume_recording(cl0) ==
    LET cl == begin_call(cl0)
    IN  IF ~cl.is_recording \/ ~cl.is_paused THEN cl
        ELSE LET resumed == [cl EXCEPT !.is_paused = FALSE]
             IN  IF resumed.control_ws # "none" /\ control_send_ok(resumed)
                 THEN [resumed EXCEPT !.sent = Append(resumed.sent, "resume_recording")]
                 ELSE resumed

\* MinimalSTTEditor.toggle_recording_pause (F5)
toggle_recording_pause(cl, device) ==
    IF ~cl.is_recording THEN start_recording(cl, device)
    ELSE IF cl.is_paused THEN resume_recording(cl)
    ELSE pause_recording(cl)

\* control_ok / data_ok: whether websockets.connect succeeds for the channel
connect(cl0, control_ok, data_ok, device) ==
    LET cl == begin_call(cl0)
    IN  IF ~control_ok
        THEN [cl EXCEPT !.is_connected = FALSE, !.raised = TRUE]
        ELSE IF ~data_ok
        THEN [cl EXCEPT !.control_ws = "open", !.is_connected = FALSE, !.raised = TRUE]
        ELSE start_recording(
                 [cl EXCEPT
                     !.control_ws = "open",
                     !.data_ws = "open",
                     !.closed_sends = 0,
                     !.is_connected = TRUE,
                     !.handler_tasks = cl.handler_tasks + 1],
                 device)

\* disconnect() up to the end of its two awaits: the flags are set and the
\* channels closed
disconnect_close_channels(cl0) ==
    LET cl == begin_call(cl0)
    IN  [cl EXCEPT
            !.should_exit = TRUE,
            !.is_connected = FALSE,
            !.control_ws = IF cl.control_ws = "none" THEN "none" ELSE "closed",
            !.data_ws = IF cl.data_ws = "none" THEN "none" ELSE "closed"]

\* the rest of disconnect(): the capture stream and PyAudio are released
disconnect_release_audio(down, closed_raises) ==
    LET terminate(c) ==
            [c EXCEPT !.pyaudio_instance =
                IF c.pyaudio_instance = "none" THEN "none" ELSE "terminated"]
    IN  IF down.audio_stream = "none" THEN terminate(down)
        ELSE IF down.audio_stream = "closed" /\ closed_raises
        THEN [down EXCEPT !.raised = TRUE]
        ELSE terminate([down EXCEPT
                           !.audio_stream = "closed",
                           !.closes = down.closes + 1,
                           !.open_streams =
                               IF down.audio_stream = "open"
                               THEN down.open_streams - 1
                               ELSE down.open_streams])

disconnect(cl0, closed_raises) ==
    disconnect_release_audio(disconnect_close_channels(cl0), closed_raises)

\* message_handler on a recording_start / recording_stop message
dispatch_recording_message(cl0, msg) ==
    LET cl == begin_call(cl0)
    IN  IF msg.type = "recording_start" THEN [cl EXCEPT !.is_recording = TRUE]
        ELSE IF msg.type = "recording_stop" THEN [cl EXCEPT !.is_recording = FALSE]
        ELSE cl

RecordingMessages == [type : {"recording_start", "recording_stop"}, text : {<<>>}]

\* message_handler on a message that is no event: a binary frame, a text that
\* is not JSON, JSON that is not an object (data.get raises AttributeError,
\* which only the outer except catches: the loop is left), an object with no
\* type or with a type no branch matches
dispatch_other_message(cl0, msg) ==
    LET cl == begin_call(cl0)
    IN  IF msg.type = "not_object"
        THEN [cl EXCEPT !.handler_tasks = cl.handler_tasks - 1]
        ELSE cl

OtherMessages ==
    [type : {"binary", "malformed", "not_object", "no_type", "unknown_type"}, text : {<<>>}]

\* StatusBar.get_right_status
get_right_status(ed, cl) ==
    IF cl.is_connected
    THEN IF ed.current_text # <<>> /\ strip(ed.current_text) # <<>> THEN "Recognizing"
         ELSE IF cl.is_paused THEN "Paused"
         ELSE IF cl.is_recording THEN "Listening"
         ELSE "Ready"
    ELSE "Offline"

\* the loop condition of audio_capture_task
capture_running(cl) == cl.is_recording /\ cl.audio_stream # "none"

\* mutant: the exception of data_ws.send is not caught
send_audio_chunk_unguarded(cl) ==
    IF cl.data_ws = "none" THEN cl
    ELSE IF cl.data_ws = "open" THEN [cl EXCEPT !.audio = cl.audio + 1]
    ELSE [cl EXCEPT !.raised = TRUE]

\* send_audio_chunk: nothing is done without a data channel; the message is
\* written when the channel is open; data_ws.send raises on a channel that
\* has ended and the exception is swallowed
send_audio_chunk(cl) ==
    IF cl.data_ws = "none" THEN cl
    ELSE IF cl.data_ws = "open" THEN [cl EXCEPT !.audio = cl.audio + 1]
    ELSE [cl EXCEPT !.closed_sends = IF cl.closed_sends < 2 THEN cl.closed_sends + 1 ELSE 2]

\* mutant: the chunk is sent whether the client is paused or not
audio_capture_iteration_sends_paused(cl0) ==
    LET cl == begin_call(cl0)
    IN  IF cl.audio_stream = "closed"
        THEN [cl EXCEPT !.capture_tasks = cl.capture_tasks - 1, !.read = "raised"]
        ELSE send_audio_chunk([cl EXCEPT !.read = "chunk"])

\* one iteration of audio_capture_task: read a chunk, send it unless paused;
\* reading a closed stream raises and ends the task.  read tells what
\* audio_stream.read did in the call
audio_capture_iteration(cl0) ==
    LET cl == begin_call(cl0)
    IN  IF cl.audio_stream = "closed"
        THEN [cl EXCEPT !.capture_tasks = cl.capture_tasks - 1, !.read = "raised"]
        ELSE LET got == [cl EXCEPT !.read = "chunk"]
             IN  IF ~got.is_paused THEN send_audio_chunk(got) ELSE got

-----------------------------------------------------------------------------
(* The audio message: [length][metadata][audio_data] *)

\* A byte string is a sequence of numbers 0..255.  The JSON text of the
\* metadata is written token by token: one byte for each brace, for the
\* separator and for each quoted key with its colon, and the decimal digits
\* of each number (the timestamp, a float in the code, is a natural here).

LBRACE == 123
RBRACE == 125
COMMA == 44
KEY_sampleRate == 115
KEY_timestamp == 116
Digits == 48..57

\* b[i:j] of Python: the bounds are clamped to the string
bytes_slice(b, i, j) == SubSeq(b, i + 1, IF j < Len(b) THEN j ELSE Len(b))

\* mutant: struct.pack('>I', n)
pack_I_big_endian(n) ==
    <<(n \div 16777216) % 256, (n \div 65536) % 256, (n \div 256) % 256, n % 256>>

\* struct.pack('<I', n)
pack_I(n) ==
    <<n % 256, (n \div 256) % 256, (n \div 65536) % 256, (n \div 16777216) % 256>>

RECURSIVE from_bytes(_)
\* int.from_bytes(b, byteorder='little'), of a string of any length
from_bytes(b) ==
    IF b = <<>> THEN 0 ELSE Head(b) + 256 * from_bytes(Tail(b))

RECURSIVE str_int(_)
\* the decimal digits of n >= 0
str_int(n) ==
    IF n < 10 THEN <<48 + n>> ELSE Append(str_int(n \div 10), 48 + (n % 10))

RECURSIVE int_str(_)
\* the number written by a non-empty string of digits
int_str(ds) ==
    IF Len(ds) = 1 THEN ds[1] - 48
    ELSE 10 * int_str(SubSeq(ds, 1, Len(ds) - 1)) + (ds[Len(ds)] - 48)

\* json.dumps(metadata).encode('utf-8')
json_dumps(metadata) ==
    <<LBRACE, KEY_sampleRate>> \o str_int(metadata.sampleRate)
        \o <<COMMA, KEY_timestamp>> \o str_int(metadata.timestamp) \o <<RBRACE>>

\* a JSON number: digits, with no leading zero
is_number(ds) ==
    /\ ds # <<>>
    /\ \A i \in 1..Len(ds) : ds[i] \in Digits
    /\ Len(ds) > 1 => ds[1] # 48

\* a member of an object: a key and a number
is_member(m) ==
    /\ Len(m) >= 2
    /\ m[1] \in {KEY_sampleRate, KEY_timestamp}
    /\ is_number(Tail(m))

RECURSIVE split_members(_)
\* the texts between the separators of s
split_members(s) ==
    LET commas == { i \in 1..Len(s) : s[i] = COMMA }
    IN  IF commas = {} THEN <<s>>
        ELSE LET i == CHOOSE c \in commas : \A d \in commas : c <= d
             IN  <<SubSeq(s, 1, i - 1)>> \o split_members(SubSeq(s, i + 1, Len(s)))

\* the value of key among the members ms, None when there is none (of
\* two members with one key the later one counts)
member_value(ms, key) ==
    LET at == { i \in 1..Len(ms) : ms[i][1] = key }
    IN  IF at = {} THEN None
        ELSE int_str(Tail(ms[CHOOSE i \in at : \A j \in at : j <= i]))

\* mutant: a text that is no JSON reads as the metadata of a 16000 Hz chunk
json_loads_lenient(s) ==
    [ok |-> TRUE, sampleRate |-> 16000, timestamp |-> 0]

\* json.loads(s) of a text that is an object of numbers; ok is FALSE when
\* json.loads raises
json_loads(s) ==
    LET inner == SubSeq(s, 2, Len(s) - 1)
        ms == IF inner = <<>> THEN <<>> ELSE split_members(inner)
    IN  IF Len(s) >= 2 /\ s[1] = LBRACE /\ s[Len(s)] = RBRACE
           /\ \A i \in 1..Len(ms) : is_member(ms[i])
        THEN [ok |-> TRUE,
              sampleRate |-> member_value(ms, KEY_sampleRate),
              timestamp |-> member_value(ms, KEY_timestamp)]
        ELSE [ok |-> FALSE, sampleRate |-> None, timestamp |-> None]

\* the message send_audio_chunk builds
audio_message(metadata, audio_data) ==
    LET metadata_json == json_dumps(metadata)
        metadata_length == Len(metadata_json)
    IN  pack_I(metadata_length) \o metadata_json \o audio_data

\* What data_handler makes of one binary message: error is the exception
\* that leaves the statements ("none" when none does), metadata and chunk
\* are those it reaches the recorder's feed with.  A byte above 127 stands
\* for one that is no UTF-8 text.
decode_message(message) ==
    LET metadata_length == from_bytes(bytes_slice(message, 0, 4))
        metadata_json == bytes_slice(message, 4, 4 + metadata_length)
        metadata == json_loads(metadata_json)
        chunk == bytes_slice(message, 4 + metadata_length, Len(message))
        failed(e) == [error |-> e, sampleRate |-> None, timestamp |-> None, chunk |-> <<>>]
    IN  IF \E i \in 1..Len(metadata_json) : metadata_json[i] > 127
        THEN failed("UnicodeDecodeError")
        ELSE IF ~metadata.ok THEN failed("JSONDecodeError")
        ELSE IF metadata.sampleRate = None THEN failed("KeyError")
        ELSE [error |-> "none", sampleRate |-> metadata.sampleRate,
              timestamp |-> metadata.timestamp, chunk |-> chunk]

-----------------------------------------------------------------------------
(* STTServer: the data handler *)

\* recorder is "none", "ready" or "shutdown"; run is "not_started", "waiting"
\* (run() is in recorder_ready.wait()), "serving" or "shutdown"; data_connections is the set of
\* that name; accepted is history, the
\* connections a handler was started for; fed is the audio given to
\* recorder.feed_audio, in order; last is history, what the data handler made
\* of the last binary message it took.

\* the data connection of the terminal client, and that of any other client
TerminalConnection == "stt_client"
PeerConnection == "peer"

\* run(): the servers are started, the recorder thread is started, and
\* run() waits for recorder_ready; recorder_ok tells whether the recorder
\* thread constructs the recorder
run(srv, recorder_ok) ==
    IF recorder_ok
    THEN [srv EXCEPT !.recorder = "ready", !.recorder_ready = TRUE, !.run = "serving"]
    ELSE [srv EXCEPT !.run = "waiting"]

\* shutdown(), from the finally clause of run(): the recorder is stopped
shutdown(srv) ==
    [srv EXCEPT !.run = "shutdown",
                !.recorder = IF srv.recorder = "none" THEN "none" ELSE "shutdown"]

\* data_handler up to its loop; data_handlers holds the connections whose
\* handler is in its loop
data_handler_enter(srv, websocket) ==
    [srv EXCEPT !.data_connections = srv.data_connections \cup {websocket},
                !.data_handlers = srv.data_handlers \cup {websocket},
                !.accepted = srv.accepted \cup {websocket}]

\* no finally clause of data_handler has run
NoCleanup == [websocket |-> "none", cleared |-> FALSE, raised |-> FALSE]

\* data_handler leaves its loop: the finally clause.  set.remove raises
\* KeyError when the connection is not in data_connections, and
\* recorder.clear_audio_queue() is then not reached; cleanup tells what the
\* clause that ran last did
data_handler_finally(srv, websocket) ==
    LET left == [srv EXCEPT !.data_handlers = srv.data_handlers \ {websocket}]
    IN  IF websocket \in srv.data_connections
        THEN [left EXCEPT !.data_connections = srv.data_connections \ {websocket},
                          !.cleanup = [websocket |-> websocket,
                                       cleared |-> srv.recorder # "none",
                                       raised |-> FALSE]]
        ELSE [left EXCEPT !.cleanup = [websocket |-> websocket,
                                       cleared |-> FALSE,
                                       raised |-> TRUE]]

\* decode_and_resample is called when the rate is not 16000; the audio fed
\* is then marked resampled, its samples are not modelled
data_handler_feed(srv, decoded) ==
    IF srv.recorder # "none" /\ srv.recorder_ready
    THEN [srv EXCEPT !.fed = Append(srv.fed,
                         [chunk |-> decoded.chunk, resampled |-> decoded.sampleRate # 16000])]
    ELSE srv

\* one iteration of the loop of data_handler on a binary message: an
\* exception of the decoding is caught by no except clause of the loop and
\* leaves it
data_handler(srv, websocket, message) ==
    LET decoded == decode_message(message)
        taken == [srv EXCEPT !.last = decoded]
    IN  IF decoded.error # "none"
        THEN data_handler_finally(taken, websocket)
        ELSE data_handler_feed(taken, decoded)

\* mutant: the message is written ahead of those in flight
data_ws_send_first(wire, message) == <<message>> \o wire

\* await self.data_ws.send(message): the message follows those in flight
data_ws_send(wire, message) == Append(wire, message)

-----------------------------------------------------------------------------
(* STTServer: the control handler *)

\* A control message is the text of a WebSocket message: json tells whether
\* it is no JSON, a JSON value that is no object, or an object, and the other
\* fields are the members of the object the handler and the client use
\* ("absent" for a member the object has not, None for dict.get).

absent == "absent"

allowed_parameters ==
    {"language", "silero_sensitivity", "post_speech_silence_duration",
     "is_recording", "use_wake_words"}

\* the attributes of the recorder looked at: two of the allowed parameters
\* and one that is not allowed
RecorderAttributes == {"language", "use_wake_words", "model"}

\* hasattr(self.recorder, parameter)
hasattr(parameter) == parameter \in RecorderAttributes

\* json.dumps({"action": action, ...}) of start_recording, stop_recording,
\* pause_recording and resume_recording of the terminal client
client_command(action) ==
    [json |-> "object", command |-> absent, action |-> action,
     parameter |-> absent, value |-> absent]

\* json.dumps({"command": command, "parameter": parameter, "value": value})
parameter_command(command, parameter, value) ==
    [json |-> "object", command |-> command, action |-> absent,
     parameter |-> parameter, value |-> value]

\* the answers of the handler
control_reply(status, message, parameter, value) ==
    [status |-> status, message |-> message, parameter |-> parameter, value |-> value]

\* the handler has taken message: before are the attributes of the recorder
\* when it did, replies the answers it sent, raised whether an exception left
\* its loop
control_taken(srv, message) ==
    [srv EXCEPT !.control = [message |-> message, before |-> srv.parameters,
                             replies |-> <<>>, raised |-> FALSE,
                             handled |-> srv.control.handled + 1]]

control_send(srv, reply) ==
    [srv EXCEPT !.control.replies = Append(srv.control.replies, reply)]

\* mutant: set_parameter sets every attribute the recorder has
control_handler_sets_any(srv0, message) ==
    LET srv == control_taken(srv0, message)
        parameter == message.parameter
    IN  IF ~srv.recorder_ready
        THEN control_send(srv, control_reply("error", "not_ready", absent, absent))
        ELSE IF message.json = "invalid"
        THEN control_send(srv, control_reply("error", "bad_json", absent, absent))
        ELSE IF message.json # "object"
        THEN [srv EXCEPT !.control.raised = TRUE]
        ELSE IF message.command = "set_parameter"
        THEN IF hasattr(parameter)
             THEN control_send([srv EXCEPT !.parameters[parameter] = message.value],
                               control_reply("success", "set", absent, absent))
             ELSE control_send(srv, control_reply("error", "unavailable", absent, absent))
        ELSE IF message.command = "get_parameter"
        THEN IF parameter \in allowed_parameters /\ hasattr(parameter)
             THEN control_send(srv, control_reply("success", "value", parameter,
                                                  srv.parameters[parameter]))
             ELSE control_send(srv, control_reply("error", "unavailable", absent, absent))
        ELSE control_send(srv, control_reply("error", "unknown_command", absent, absent))

\* one iteration of the loop of control_handler, on message.  command_data.get
\* raises AttributeError when the JSON value is no object; no except clause
\* of the handler catches it
control_handler(srv0, message) ==
    LET srv == control_taken(srv0, message)
        parameter == message.parameter
    IN  IF ~srv.recorder_ready
        THEN control_send(srv, control_reply("error", "not_ready", absent, absent))
        ELSE IF message.json = "invalid"
        THEN control_send(srv, control_reply("error", "bad_json", absent, absent))
        ELSE IF message.json # "object"
        THEN [srv EXCEPT !.control.raised = TRUE]
        ELSE IF message.command = "set_parameter"
        THEN IF parameter \in allowed_parameters /\ hasattr(parameter)
             THEN control_send([srv EXCEPT !.parameters[parameter] = message.value],
                               control_reply("success", "set", absent, absent))
             ELSE control_send(srv, control_reply("error", "unavailable", absent, absent))
        ELSE IF message.command = "get_parameter"
        THEN IF parameter \in allowed_parameters /\ hasattr(parameter)
             THEN control_send(srv, control_reply("success", "value", parameter,
                                                  srv.parameters[parameter]))
             ELSE control_send(srv, control_reply("error", "unavailable", absent, absent))
        ELSE control_send(srv, control_reply("error", "unknown_command", absent, absent))

-----------------------------------------------------------------------------
(* STTServer: the recorder callbacks *)

\* audio_queue holds the events put and not yet broadcast.  utterance is
\* history: realtime counts the realtime events put for the utterance in
\* progress, finished tells that an utterance has ended, terminal counts the
\* events process_final_text put for the utterance that ended last, callbacks
\* counts the callbacks the recorder has made and puts the events put; number
\* counts the utterances that have ended and order tells, for each event put,
\* its type and the utterance it belongs to.  realtime_thread is the call of
\* text_detected the realtime thread of the recorder is in.

\* str.upper() of one character
upper(c) == IF c = "a" THEN "A" ELSE IF c = "b" THEN "B" ELSE c

\* text.startswith("...")
startswith_ellipsis(text) ==
    Len(text) >= 3 /\ text[1] = "." /\ text[2] = "." /\ text[3] = "."

preprocess_text(text0) ==
    LET stripped == lstrip(text0)
        text == lstrip(IF startswith_ellipsis(stripped)
                       THEN SubSeq(stripped, 4, Len(stripped))
                       ELSE stripped)
    IN  IF text # <<>> THEN <<upper(text[1])>> \o Tail(text) ELSE text

\* audio_queue.put(message), scheduled on the event loop; queued is history,
\* every event put
audio_queue_put(srv, message) ==
    [srv EXCEPT !.audio_queue = Append(srv.audio_queue, message),
                !.queued = Append(srv.queued, message),
                !.utterance.puts = srv.utterance.puts + 1]

\* no call of text_detected is in progress
NoTextDetected ==
    [pc |-> "idle", message |-> [type |-> "realtime", text |-> <<>>], utterance |-> 0]

\* text_detected up to its message, for the utterance in progress
text_detected_enter(srv, text) ==
    [srv EXCEPT !.realtime_thread =
                    [pc |-> "entered",
                     message |-> [type |-> "realtime", text |-> preprocess_text(text)],
                     utterance |-> srv.utterance.number],
                !.utterance.callbacks = srv.utterance.callbacks + 1]

\* text_detected from run_coroutine_threadsafe on
text_detected_put(srv) ==
    [audio_queue_put(srv, srv.realtime_thread.message)
        EXCEPT !.utterance.realtime = srv.utterance.realtime + 1,
               !.utterance.order = Append(srv.utterance.order,
                                          [type |-> "realtime",
                                           utterance |-> srv.realtime_thread.utterance]),
               !.realtime_thread = NoTextDetected]

text_detected(srv, text) == text_detected_put(text_detected_enter(srv, text))

process_final_text(srv, text0) ==
    LET text == preprocess_text(text0)
        ended == [srv EXCEPT !.utterance.realtime = 0,
                             !.utterance.finished = TRUE,
                             !.utterance.number = srv.utterance.number + 1,
                             !.utterance.callbacks = srv.utterance.callbacks + 1]
    IN  IF strip(text) = <<>>
        THEN [ended EXCEPT !.utterance.terminal = 0]
        ELSE [audio_queue_put(ended, [type |-> "fullSentence", text |-> text])
                 EXCEPT !.utterance.terminal = 1,
                        !.utterance.order = Append(srv.utterance.order,
                                                   [type |-> "fullSentence",
                                                    utterance |-> srv.utterance.number])]

-----------------------------------------------------------------------------
(* STTServer: the broadcast *)

\* mutant: the event put last is taken
broadcast_audio_messages_newest_first(srv, open) ==
    LET queue == srv.audio_queue
        message == queue[Len(queue)]
        sent == srv.data_connections \cap open
    IN  [srv EXCEPT !.audio_queue = SubSeq(queue, 1, Len(queue) - 1),
                    !.data_connections = sent,
                    !.broadcast = Append(srv.broadcast,
                                         [message |-> message,
                                          connected |-> srv.data_connections,
                                          open |-> open, to |-> sent])]

\* one iteration of broadcast_audio_messages with an event on audio_queue:
\* the event put first is taken; with no data connection it is dropped;
\* otherwise it is sent to every data connection, and a connection whose
\* send raises ConnectionClosed (one not in open) is discarded.  broadcast
\* is history: the event taken, the data connections at that moment, the
\* connections that were open and those the event was written to
broadcast_audio_messages(srv, open) ==
    LET message == Head(srv.audio_queue)
        sent == srv.data_connections \cap open
    IN  [srv EXCEPT !.audio_queue = Tail(srv.audio_queue),
                    !.data_connections = sent,
                    !.broadcast = Append(srv.broadcast,
                                         [message |-> message,
                                          connected |-> srv.data_connections,
                                          open |-> open, to |-> sent])]

-----------------------------------------------------------------------------
(* ParakeetClient *)

\* What the API does with one request: it answers 200 with a JSON body, 200
\* with a body that is no JSON, 201, 500, or the request times out or the
\* connection fails.
Responses == {"200", "200_not_json", "201", "500", "timeout", "connection_error"}

\* transcribe, on a request the API treats as response
transcribe(response) ==
    IF response = "200" THEN [success |-> TRUE, error |-> "none", text |-> "text"]
    ELSE [success |-> FALSE,
          error |-> IF response = "timeout" THEN "Request timeout"
                    ELSE IF response = "connection_error" THEN "Connection failed"
                    ELSE IF response = "200_not_json" THEN "Transcription error"
                    ELSE "API error",
          text |-> ""]

RECURSIVE retry_loop(_, _, _, _)
\* the loop of transcribe_with_retry from its iteration attempt on, of
\* attempts iterations in all; log holds the results of the calls made
retry_loop(responses, attempts, attempt, log) ==
    IF attempt >= attempts
    THEN [result |-> IF log # <<>> THEN log[Len(log)]
                     ELSE [success |-> FALSE, error |-> "All retries failed", text |-> ""],
          log |-> log]
    ELSE LET result == transcribe(responses[attempt + 1])
         IN  IF result.success
             THEN [result |-> result, log |-> Append(log, result)]
             ELSE retry_loop(responses, attempts, attempt + 1, Append(log, result))

\* mutant: for attempt in range(max_retries)
transcribe_with_retry_one_short(responses, max_retries) ==
    retry_loop(responses, max_retries, 0, <<>>)

\* responses[i] is what the API does with the i-th request
transcribe_with_retry(responses, max_retries) ==
    retry_loop(responses, max_retries + 1, 0, <<>>)

-----------------------------------------------------------------------------
(* HTTPTranscribeServer *)

\* A request to POST /transcribe has no body and no Content-Type ("none"), a
\* body that is no multipart form ("urlencoded"), or a multipart form
\* ("multipart") with fields; a field is "file" (a file field with data),
\* "empty_file" (a file field with no data) or "language".  transcribes
\* tells whether transcribe_bytes returns (it raises otherwise).

\* async for field in reader: the data of the file field read last, "none"
\* when there is no file field
audio_data_of(fields) ==
    LET files == { i \in 1..Len(fields) : fields[i] \in {"file", "empty_file"} }
    IN  IF files = {} THEN "none"
        ELSE IF fields[CHOOSE i \in files : \A j \in files : j <= i] = "file" THEN "data"
        ELSE "empty"

\* request.multipart() raises when the request has no multipart content
\* type; the except clause of the handler answers 500
handle_transcribe(srv, request) ==
    LET answer(status, invoked) ==
            [srv EXCEPT !.request = request, !.status = status, !.invoked = invoked,
                        !.log = Append(srv.log, status)]
    IN  IF srv.transcriber = "none" THEN answer(503, FALSE)
        ELSE IF request.body # "multipart" THEN answer(500, FALSE)
        ELSE IF audio_data_of(request.fields) # "data" THEN answer(400, FALSE)
        ELSE IF request.transcribes THEN answer(200, TRUE)
        ELSE answer(500, TRUE)

\* start(): initialize_transcriber, then the site is started; when the
\* transcriber cannot be constructed the exception leaves start()
start(srv, transcriber_ok) ==
    IF transcriber_ok
    THEN [srv EXCEPT !.transcriber = "ready", !.site = "started"]
    ELSE [srv EXCEPT !.site = "failed"]

Requests ==
    [body : {"none", "urlencoded"}, fields : {<<>>}, transcribes : {TRUE}]
    \cup [body : {"multipart"},
          fields : { <<>>, <<"language">>, <<"empty_file">>, <<"file">>,
                     <<"language", "file">>, <<"file", "empty_file">> },
          transcribes : BOOLEAN]

-----------------------------------------------------------------------------
(* The batch editor: MinimalSTTEditor of client/minimal_editor.py, AudioBuffer *)

\* audio_buffer.frames is the number of bytes recorded.  tasks holds the
\* tasks created by F5 that have not run yet, in the order the event loop
\* will run them; awaiting counts the tasks of stop_recording_and_transcribe
\* suspended in `await self._recording_task`, transcribing those suspended in
\* run_in_executor.  recording_task is "none", "running" or "cancelled".
\* cleared is history: whether audio_buffer.clear() has run, and the flag
\* and the frames it found when it ran last.

\* one read of chunk_size = 1024 frames of 16 bit mono
chunk_bytes == 2048

\* sample_rate * channels * sample_width
bytes_per_second == 32000

\* AudioBuffer.start_recording; device_ok: whether _init_audio succeeds
AudioBuffer_start_recording(buf, device_ok) ==
    IF buf.is_recording THEN [buf |-> buf, ok |-> TRUE]
    ELSE IF ~device_ok THEN [buf |-> [buf EXCEPT !.audio_stream = "none"], ok |-> FALSE]
    ELSE [buf |-> [buf EXCEPT !.audio_stream = "open", !.frames = 0, !.is_recording = TRUE],
          ok |-> TRUE]

\* AudioBuffer.read_chunk
read_chunk(buf) ==
    IF ~buf.is_recording \/ buf.audio_stream = "none" THEN buf
    ELSE [buf EXCEPT !.frames = buf.frames + chunk_bytes]

\* AudioBuffer.stop_recording: the WAV bytes are empty when not recording
AudioBuffer_stop_recording(buf) ==
    IF ~buf.is_recording THEN [buf |-> buf, wav_bytes |-> "empty"]
    ELSE [buf |-> [buf EXCEPT !.is_recording = FALSE, !.audio_stream = "none"],
          wav_bytes |-> "wav"]

\* AudioBuffer.get_duration() < 0.3
too_short(buf) == buf.frames * 10 < 3 * bytes_per_second

\* AudioBuffer.clear
AudioBuffer_clear(buf) == [buf EXCEPT !.frames = 0]

\* StatusBar.set_state
set_state(ed, state, error) ==
    [ed EXCEPT !.status_bar = [state |-> state,
                               error_message |-> IF error # "" THEN error
                                                 ELSE ed.status_bar.error_message]]

\* the key binding of F5
toggle_recording(ed) ==
    [ed EXCEPT !.tasks = Append(ed.tasks,
                                IF ed.is_recording THEN "stop_recording_and_transcribe"
                                ELSE "start_recording"),
               !.presses = ed.presses + 1]

\* MinimalSTTEditor.start_recording of the batch editor
MinimalSTTEditor_start_recording(ed, device_ok) ==
    IF ed.is_recording THEN ed
    ELSE LET started == AudioBuffer_start_recording(ed.audio_buffer, device_ok)
             opened == [ed EXCEPT !.audio_buffer = started.buf]
         IN  IF ~started.ok
             THEN set_state(opened, "idle", "Mic error")
             ELSE [set_state(opened, "recording", "")
                      EXCEPT !.is_recording = TRUE, !.recording_task = "running"]

\* one iteration of _recording_loop, is_recording being true
recording_loop(ed) == [ed EXCEPT !.audio_buffer = read_chunk(ed.audio_buffer)]

\* stop_recording_and_transcribe from the await of the recording task to
\* the await of run_in_executor
stop_recording_and_transcribe_stopped(ed) ==
    LET stopped == AudioBuffer_stop_recording(ed.audio_buffer)
        closed == [ed EXCEPT !.audio_buffer = stopped.buf]
    IN  IF stopped.wav_bytes = "empty"
        THEN set_state(closed, "idle", "No audio")
        ELSE IF too_short(closed.audio_buffer)
        THEN set_state(closed, "idle", "Too short")
        ELSE [set_state(closed, "sending", "") EXCEPT !.transcribing = ed.transcribing + 1]

\* stop_recording_and_transcribe up to the await of the recording task: a
\* task that is running is cancelled and awaited, which suspends; the await
\* of a task that has ended does not suspend
stop_recording_and_transcribe_enter(ed) ==
    IF ~ed.is_recording THEN ed
    ELSE LET off == [ed EXCEPT !.is_recording = FALSE]
         IN  IF off.recording_task = "running"
             THEN [off EXCEPT !.recording_task = "cancelled",
                              !.awaiting = off.awaiting + 1]
             ELSE stop_recording_and_transcribe_stopped(off)

\* the recording task has ended: the task goes on
stop_recording_and_transcribe_resume(ed) ==
    stop_recording_and_transcribe_stopped([ed EXCEPT !.awaiting = ed.awaiting - 1])

\* stop_recording_and_transcribe from the result of transcribe_with_retry
\* on: result is "text", "empty" or "error"
stop_recording_and_transcribe_finish(ed0, result) ==
    LET ed == [ed0 EXCEPT !.transcribing = ed0.transcribing - 1]
        shown == IF result = "text"
                 THEN [set_state(ed, "ready", "") EXCEPT !.inserted = ed.inserted + 1]
                 ELSE IF result = "empty"
                 THEN set_state(ed, "idle", "Empty result")
                 ELSE set_state(ed, "idle", "error")
    IN  [shown EXCEPT !.audio_buffer = AudioBuffer_clear(shown.audio_buffer),
                      !.cleared = [ran |-> TRUE,
                                   is_recording |-> shown.is_recording,
                                   frames |-> shown.audio_buffer.frames]]

-----------------------------------------------------------------------------
(* TranscriptionEditor (Tk): the session and the inbound path *)

\* The asyncio loop runs in a thread of its own; it changes no widget but
\* schedules every change with root.after(0, f).  after is the Tk timer
\* queue: callbacks [fn, text, of], run by the main loop in the order they
\* were scheduled; of is history, the number of data messages taken when the
\* callback was scheduled (0 for those of websocket_handler).  applied is
\* history, the callbacks that have run.  status_text holds the label of the
\* recognition panel followed by the text shown behind it.

root_after(app, fn, text, of) ==
    [app EXCEPT !.after = Append(app.after, [fn |-> fn, text |-> text, of |-> of])]

\* setup_audio() and, when it returns True, start_audio_recording()
setup_and_start_audio(app, device) ==
    IF device = "no_pyaudio" THEN app
    ELSE IF device = "no_device" THEN [app EXCEPT !.pyaudio_instance = "live"]
    ELSE root_after([app EXCEPT !.pyaudio_instance = "live",
                                !.audio_stream = "open",
                                !.is_recording = TRUE],
                    "status_label", <<"recording">>, 0)

\* websocket_handler up to the start of the two inbound loops
websocket_handler(app0, control_ok, data_ok, device) ==
    LET app == [app0 EXCEPT !.thread = TRUE]
    IN  IF ~control_ok
        THEN root_after(app, "status_label", <<"error">>, 0)
        ELSE LET up == root_after([app EXCEPT !.control_ws = "open", !.is_connected = TRUE],
                                  "status_label", <<"ready">>, 0)
             IN  IF ~data_ok
                 THEN root_after(up, "status_label", <<"error">>, 0)
                 ELSE [setup_and_start_audio([up EXCEPT !.data_ws = "open"], device)
                          EXCEPT !.data_loop = TRUE]

\* one iteration of handle_data_messages, on the of-th message taken
handle_data_messages(app, msg, of) ==
    LET text == strip(msg.text)
    IN  IF msg.type = "realtime" /\ text # <<>>
        THEN root_after(app, "update_realtime_text", text, of)
        ELSE IF msg.type = "fullSentence" /\ text # <<>>
        THEN root_after(app, "append_sentence", text, of)
        ELSE app

update_realtime_text(app, text) ==
    IF text # <<>> /\ strip(text) # <<>>
    THEN [app EXCEPT !.status_text = <<"recognizing">> \o strip(text)]
    ELSE [app EXCEPT !.status_text = <<"waiting">>]

\* text_area.get("1.0", END) is the content and Tk's final newline; the
\* insertion at END goes behind the content
append_sentence(app, text) ==
    IF strip(text) = <<>> THEN app
    ELSE LET current_text == strip(app.text_area \o <<"\n">>)
             added == IF current_text # <<>> THEN <<" ">> \o strip(text) ELSE strip(text)
         IN  update_realtime_text([app EXCEPT !.text_area = app.text_area \o added], <<>>)

\* what a scheduled callback does when the main loop runs it
run_callback(app, cb) ==
    IF cb.fn = "update_realtime_text" THEN update_realtime_text(app, cb.text)
    ELSE IF cb.fn = "append_sentence" THEN append_sentence(app, cb.text)
    ELSE [app EXCEPT !.status_label = cb.text]

\* mutant: the main loop runs the callback scheduled last
tk_mainloop_runs_last(app) ==
    LET cb == app.after[Len(app.after)]
    IN  [run_callback(app, cb) EXCEPT
            !.after = SubSeq(app.after, 1, Len(app.after) - 1),
            !.applied = Append(app.applied, cb)]

\* the Tk main loop runs the timer callback that is due first
tk_mainloop(app) ==
    LET cb == Head(app.after)
    IN  [run_callback(app, cb) EXCEPT
            !.after = Tail(app.after),
            !.applied = Append(app.applied, cb)]

-----------------------------------------------------------------------------
(* State after construction: MinimalSTTEditor.__init__, WebSocketSTTClient.__init__ *)

InitEditor ==
    [text |-> <<>>, cursor_position |-> 0, current_text |-> <<>>,
     realtime_start_pos |-> None, clipboard |-> <<>>, copied |-> FALSE]

InitClient ==
    [control_ws |-> "none", data_ws |-> "none", is_connected |-> FALSE,
     audio_stream |-> "none", pyaudio_instance |-> "none",
     is_recording |-> FALSE, is_paused |-> FALSE, should_exit |-> FALSE,
     open_streams |-> 0, capture_tasks |-> 0, handler_tasks |-> 0,
     sent |-> <<>>, closes |-> 0, audio |-> 0, raised |-> FALSE, closed_sends |-> 0,
     closing |-> FALSE, read |-> "none"]

\* TranscriptionEditor.__init__ and setup_ui
InitTranscriptionEditor ==
    [control_ws |-> "none", data_ws |-> "none", is_connected |-> FALSE,
     audio_stream |-> "none", pyaudio_instance |-> "none", is_recording |-> FALSE,
     thread |-> FALSE, data_loop |-> FALSE,
     after |-> <<>>, applied |-> <<>>,
     status_label |-> <<"connecting">>, status_text |-> <<>>, text_area |-> <<>>]

Clients == {"stt_client", "transcription_editor"}

\* no call of transcribe_with_retry is looked at
NoCall ==
    [pc |-> "none", max_retries |-> 0, responses |-> <<>>, log |-> <<>>,
     result |-> [success |-> FALSE, error |-> "none", text |-> ""]]

\* HTTPTranscribeServer.__init__; request, status, invoked and log are
\* history: the last request, its answer, whether the transcriber was
\* called for it, and the answers given
InitHTTPServer ==
    [transcriber |-> "none", site |-> "not_started",
     request |-> [body |-> "none", fields |-> <<>>, transcribes |-> TRUE],
     status |-> 0, invoked |-> FALSE, log |-> <<>>]

\* STTServer.__init__
InitServer ==
    [recorder |-> "none", recorder_ready |-> FALSE, run |-> "not_started",
     data_connections |-> {}, data_handlers |-> {}, accepted |-> {}, fed |-> <<>>,
     cleanup |-> NoCleanup, queued |-> <<>>, broadcast |-> <<>>,
     audio_queue |-> <<>>,
     utterance |-> [realtime |-> 0, finished |-> FALSE, terminal |-> 0, callbacks |-> 0,
                    puts |-> 0, number |-> 0, order |-> <<>>],
     realtime_thread |-> NoTextDetected,
     parameters |-> [a \in RecorderAttributes |-> "initial"],
     control |-> [message |-> client_command(absent),
                  before |-> [a \in RecorderAttributes |-> "initial"],
                  replies |-> <<>>, raised |-> FALSE, handled |-> 0],
     last |-> [error |-> "none", sampleRate |-> None, timestamp |-> None, chunk |-> <<>>]]

\* no audio message is being looked at
NoFraming ==
    [pc |-> "none", metadata |-> [sampleRate |-> 16000, timestamp |-> 0], audio_data |-> <<>>,
     message |-> <<>>, arrived |-> <<>>,
     decoded |-> [error |-> "none", sampleRate |-> None, timestamp |-> None, chunk |-> <<>>]]

\* MinimalSTTEditor.__init__ of the batch editor, StatusBar.__init__ and
\* AudioBuffer.__init__
InitMinimalEditor ==
    [is_recording |-> FALSE, recording_task |-> "none",
     status_bar |-> [state |-> "idle", error_message |-> ""],
     audio_buffer |-> [frames |-> 0, is_recording |-> FALSE, audio_stream |-> "none"],
     tasks |-> <<>>, awaiting |-> 0, transcribing |-> 0, presses |-> 0, inserted |-> 0,
     cleared |-> [ran |-> FALSE, is_recording |-> FALSE, frames |-> 0]]

\* the objects of the program
Constructed ==
    /\ data_channel = [c \in Clients |-> <<>>]
    /\ transcription_editor = InitTranscriptionEditor
    /\ inbound = [received |-> [c \in Clients |-> <<>>], handled |-> [c \in Clients |-> <<>>]]
    /\ editor = InitEditor
    /\ stt_client = InitClient
    /\ hist = <<>>
    /\ call = [op |-> "init", arg |-> <<>>, stt_client |-> InitClient]
    /\ received = 0
    /\ finals = <<>>
    /\ edited = FALSE
    /\ outbound = [wire |-> <<>>, captured |-> <<>>, peer |-> "none", written |-> 0]
    /\ stt_server = InitServer
    /\ http_server = InitHTTPServer
    /\ minimal_editor = InitMinimalEditor

Init ==
    /\ Constructed
    /\ framing = NoFraming
    /\ parakeet_client = NoCall

\* the last two entries of h followed by e
Remember(h, e) == IF Len(h) < 2 THEN Append(h, e) ELSE <<h[2], e>>

-----------------------------------------------------------------------------
(* Actions of the editor *)

\* the message_handler task is draining the data channel
handler_running == stt_client.handler_tasks > 0 /\ stt_client.data_ws = "open"

\* message_handler handles the realtime / fullSentence message msg
HandleText(msg) ==
    /\ editor' = dispatch_text_message([editor EXCEPT !.copied = FALSE], msg)
    /\ hist' = Remember(hist, [op |-> msg.type, text |-> msg.text, editor |-> editor])
    /\ received' = received + 1
    /\ finals' = IF ~edited /\ msg.type = "fullSentence" /\ strip(msg.text) # <<>>
                 THEN Append(finals, msg.text)
                 ELSE finals
    /\ UNCHANGED <<stt_client, call, edited>>

\* message_handler receives one realtime / fullSentence message
ReceiveText ==
    \E msg \in TextMessages :
        /\ handler_running
        /\ received < MaxMsgs
        /\ HandleText(msg)
        /\ UNCHANGED others

\* the user moves the cursor (arrow keys, mouse click)
MoveCursor ==
    \E pos \in 0..Len(editor.text) :
        /\ pos # editor.cursor_position
        /\ editor' = set_cursor_position(editor, pos)
        /\ hist' = <<>>
        /\ edited' = TRUE
        /\ UNCHANGED <<stt_client, call, received, finals>>
        /\ UNCHANGED others

\* The user edits the document only while no provisional span is recorded:
\* what an edit made while one is live leads to is left undefined by the
\* design.

\* the user types a character
TypeChar ==
    \E c \in TypedChars :
        /\ editor.realtime_start_pos = None
        /\ Len(editor.text) < MaxTyped
        /\ editor' = insert_text(editor, <<c>>)
        /\ hist' = <<>>
        /\ edited' = TRUE
        /\ UNCHANGED <<stt_client, call, received, finals>>
        /\ UNCHANGED others

\* the user pastes a text (the bracketed paste of the Buffer)
Paste ==
    \E data \in PastedTexts :
        /\ editor.realtime_start_pos = None
        /\ Len(editor.text) < MaxTyped
        /\ editor' = insert_text(editor, data)
        /\ hist' = <<>>
        /\ edited' = TRUE
        /\ UNCHANGED <<stt_client, call, received, finals>>
        /\ UNCHANGED others

\* F8: clear_all_text
ClearAllText ==
    /\ editor.realtime_start_pos = None
    /\ editor.text # <<>>
    /\ editor' = set_text(editor, <<>>)
    /\ hist' = <<>>
    /\ edited' = TRUE
    /\ UNCHANGED <<stt_client, call, received, finals>>
    /\ UNCHANGED others

-----------------------------------------------------------------------------
(* Actions of the client *)

Devices == {"ok", "no_pyaudio", "no_device"}

\* room for one more capture stream and one more capture task
room == stt_client.open_streams < MaxHandles /\ stt_client.capture_tasks < MaxHandles

\* a client operation: op called with the inputs arg leaves the client as cl
ClientOp(op, arg, cl) ==
    /\ stt_client' = cl
    /\ call' = [op |-> op, arg |-> arg, stt_client |-> stt_client]
    /\ UNCHANGED <<editor, hist, received, finals, edited>>

ClientStep(op, arg, cl) ==
    /\ ClientOp(op, arg, cl)
    /\ UNCHANGED others

\* initialize(): connect(), which starts recording when both channels open
Connect(control_ok, data_ok, device) ==
    /\ call.op = "init"
    /\ ClientStep("connect", <<control_ok, data_ok, device>>, connect(stt_client, control_ok, data_ok, device))

ConnectAny ==
    \E control_ok \in BOOLEAN, data_ok \in BOOLEAN, device \in Devices :
        Connect(control_ok, data_ok, device)

Disconnect ==
    \E closed_raises \in BOOLEAN :
        ClientStep("disconnect", <<closed_raises>>, disconnect(stt_client, closed_raises))

StartRecording ==
    \E device \in Devices :
        /\ room
        /\ ClientStep("start_recording", <<device>>, start_recording(stt_client, device))

StopRecording ==
    \E closed_raises \in BOOLEAN :
        ClientStep("stop_recording", <<closed_raises>>, stop_recording(stt_client, closed_raises))

PauseRecording ==
    ClientStep("pause_recording", <<>>, pause_recording(stt_client))

ResumeRecording ==
    ClientStep("resume_recording", <<>>, resume_recording(stt_client))

\* F5
ToggleRecordingPause ==
    \E device \in Devices :
        /\ ~stt_client.is_recording => room
        /\ ClientStep("toggle_recording_pause", <<device>>,
                      toggle_recording_pause(stt_client, device))

\* message_handler receives recording_start / recording_stop
ReceiveRecording ==
    \E msg \in RecordingMessages :
        /\ handler_running
        /\ ClientStep(msg.type, <<>>, dispatch_recording_message(stt_client, msg))

\* message_handler receives a message that is no event
ReceiveOther ==
    \E msg \in OtherMessages :
        /\ handler_running
        /\ ClientStep(msg.type, <<>>, dispatch_other_message(stt_client, msg))

\* one turn of a capture task: leave the loop, or run one iteration
CaptureTask ==
    /\ stt_client.capture_tasks > 0
    /\ ClientStep("audio_capture_task", <<>>,
                  IF capture_running(stt_client)
                  THEN audio_capture_iteration(stt_client)
                  ELSE [begin_call(stt_client) EXCEPT
                           !.capture_tasks = stt_client.capture_tasks - 1])

\* the server (or the network) ends a channel
ChannelLost ==
    \E ch \in {"control_ws", "data_ws"} :
        /\ stt_client[ch] = "open"
        /\ ClientStep("channel_lost", <<ch>>, [begin_call(stt_client) EXCEPT ![ch] = "closed"])

\* mutant: the inbound loop opens the data channel again when it ends
HandlerExit_reconnects ==
    /\ stt_client.handler_tasks > 0
    /\ stt_client.data_ws # "open"
    /\ ClientStep("message_handler_exit", <<>>,
                  [begin_call(stt_client) EXCEPT !.data_ws = "open"])

\* message_handler leaves its loop when the data channel has ended
HandlerExit ==
    /\ stt_client.handler_tasks > 0
    /\ stt_client.data_ws # "open"
    /\ ClientStep("message_handler_exit", <<>>,
                  [begin_call(stt_client) EXCEPT
                      !.handler_tasks = stt_client.handler_tasks - 1])

\* disconnect() runs up to its awaits, where the event loop may run the
\* other tasks before it goes on
DisconnectSuspends ==
    /\ ~stt_client.closing
    /\ ClientStep("disconnect_close_channels", <<>>,
                  [disconnect_close_channels(stt_client) EXCEPT !.closing = TRUE])

\* the suspended disconnect() goes on to its end
DisconnectResumes ==
    \E closed_raises \in BOOLEAN :
        /\ stt_client.closing
        /\ ClientStep("disconnect_release_audio", <<closed_raises>>,
                      [disconnect_release_audio(begin_call(stt_client), closed_raises)
                          EXCEPT !.closing = FALSE])

-----------------------------------------------------------------------------
(* Actions of the broadcast and of the inbound loops *)

\* the events of the server
InboundMessages == TextMessages \cup RecordingMessages

data_open(c) ==
    IF c = "stt_client" THEN stt_client.data_ws = "open"
    ELSE transcription_editor.data_ws = "open"

\* one iteration of STTServer.broadcast_audio_messages: the message is sent
\* to every data connection
ServerSends ==
    \E msg \in InboundMessages :
        /\ \E c \in Clients : data_open(c)
        /\ \A c \in Clients : Len(inbound.received[c]) < MaxBroadcast
        /\ data_channel' = [c \in Clients |->
                IF data_open(c) THEN Append(data_channel[c], msg) ELSE data_channel[c]]
        /\ inbound' = [inbound EXCEPT !.received = [c \in Clients |->
                IF data_open(c) THEN Append(inbound.received[c], msg) ELSE inbound.received[c]]]
        /\ UNCHANGED <<editor, stt_client, hist, call, received, finals, edited,
                       transcription_editor, services>>

\* one iteration of the loop of message_handler: the next message of the
\* data channel is taken and handled (the callbacks it awaits contain no
\* await of their own, so nothing runs between taking a message and the end
\* of its handling)
HandleNext ==
    /\ handler_running
    /\ data_channel["stt_client"] # <<>>
    /\ LET msg == Head(data_channel["stt_client"])
       IN  /\ IF msg.type \in {"realtime", "fullSentence"}
              THEN HandleText(msg)
              ELSE ClientOp(msg.type, <<>>, dispatch_recording_message(stt_client, msg))
           /\ data_channel' = [data_channel EXCEPT !["stt_client"] = Tail(@)]
           /\ inbound' = [inbound EXCEPT !.handled["stt_client"] = Append(@, msg)]
           /\ UNCHANGED <<transcription_editor, services>>

\* auto_connect: the thread of the asyncio loop runs websocket_handler
TkConnect ==
    \E control_ok \in BOOLEAN, data_ok \in BOOLEAN, device \in Devices :
        /\ ~transcription_editor.thread
        /\ transcription_editor' =
               websocket_handler(transcription_editor, control_ok, data_ok, device)
        /\ UNCHANGED <<editor, stt_client, hist, call, received, finals, edited,
                       data_channel, inbound, services>>

\* one iteration of the loop of handle_data_messages
TkHandleNext ==
    /\ transcription_editor.data_loop
    /\ data_channel["transcription_editor"] # <<>>
    /\ LET msg == Head(data_channel["transcription_editor"])
       IN  /\ transcription_editor' =
                  handle_data_messages(transcription_editor, msg,
                                       Len(inbound.handled["transcription_editor"]) + 1)
           /\ data_channel' = [data_channel EXCEPT !["transcription_editor"] = Tail(@)]
           /\ inbound' = [inbound EXCEPT !.handled["transcription_editor"] = Append(@, msg)]
           /\ UNCHANGED <<editor, stt_client, hist, call, received, finals, edited, services>>

\* the Tk main loop runs one timer callback
TkMainloop ==
    /\ transcription_editor.after # <<>>
    /\ transcription_editor' = tk_mainloop(transcription_editor)
    /\ UNCHANGED <<editor, stt_client, hist, call, received, finals, edited,
                   data_channel, inbound, services>>

-----------------------------------------------------------------------------
(* Actions on one audio message *)

\* the chunks and metadata the client encoder is given
FramingInputs ==
    { [NoFraming EXCEPT !.pc = "chunk", !.metadata = [sampleRate |-> r, timestamp |-> t],
                        !.audio_data = a] :
          r \in SampleRates, t \in Timestamps, a \in AudioData }

\* send_audio_chunk builds the message
BuildMessage ==
    /\ framing.pc = "chunk"
    /\ framing' = [framing EXCEPT
                      !.pc = "message",
                      !.message = audio_message(framing.metadata, framing.audio_data)]
    /\ UNCHANGED <<editor, stt_client, hist, call, received, finals, edited,
                   data_channel, transcription_editor, inbound,
                   outbound, stt_server, parakeet_client, http_server, minimal_editor>>

\* the first n bytes of the message reach data_handler, which decodes them
DecodeMessage ==
    \E n \in 0..Len(framing.message) :
        /\ framing.pc = "message"
        /\ framing' = [framing EXCEPT
                          !.pc = "decoded",
                          !.arrived = bytes_slice(framing.message, 0, n),
                          !.decoded = decode_message(bytes_slice(framing.message, 0, n))]
        /\ UNCHANGED <<editor, stt_client, hist, call, received, finals, edited,
                       data_channel, transcription_editor, inbound,
                       outbound, stt_server, parakeet_client, http_server, minimal_editor>>

-----------------------------------------------------------------------------
(* Actions of the audio path *)

\* the sample rate of the terminal client
sample_rate == 16000

\* the client is Listening on an open connection
listening_open(cl) ==
    cl.is_connected /\ cl.is_recording /\ ~cl.is_paused /\ cl.data_ws = "open"

\* what is left unchanged by a step of the audio path
beside_audio == <<data_channel, transcription_editor, inbound, framing,
                  parakeet_client, http_server, minimal_editor>>

\* one iteration of a capture task in which the device delivers audio_data
\* at clock reading timestamp; captured is history, the chunks read and
\* whether the client was Listening on an open connection
CaptureChunk ==
    \E audio_data \in Chunks, timestamp \in Timestamps :
        /\ stt_client.capture_tasks > 0
        /\ capture_running(stt_client)
        /\ stt_client.audio_stream = "open"
        /\ Len(outbound.captured) < MaxChunks
        /\ LET cl == audio_capture_iteration(stt_client)
               message == audio_message([sampleRate |-> sample_rate, timestamp |-> timestamp],
                                        audio_data)
           IN  /\ ClientOp("audio_capture_task", <<audio_data>>, cl)
               /\ outbound' = [outbound EXCEPT
                      !.wire = IF cl.audio > 0 THEN data_ws_send(@, message) ELSE @,
                      !.captured = Append(@, [audio_data |-> audio_data,
                                              listening |-> listening_open(stt_client)])]
        /\ UNCHANGED <<stt_server, beside_audio>>

\* main(): the server runs
Run ==
    \E recorder_ok \in BOOLEAN :
        /\ stt_server.run = "not_started"
        /\ stt_server' = run(stt_server, recorder_ok)
        /\ UNCHANGED <<editor, stt_client, hist, call, received, finals, edited,
                       outbound, beside_audio>>

\* the servers are closed or the process is interrupted: run() leaves its
\* gather and reaches its finally clause
Shutdown ==
    /\ stt_server.run = "serving"
    /\ stt_server' = shutdown(stt_server)
    /\ UNCHANGED <<editor, stt_client, hist, call, received, finals, edited,
                   outbound, beside_audio>>

\* the data connection websocket is open at its client
open_at_client(websocket) ==
    IF websocket = TerminalConnection THEN stt_client.data_ws = "open"
    ELSE outbound.peer = "open"

\* the server accepts a data connection: data_handler starts
DataHandlerEnter ==
    \E websocket \in {TerminalConnection, PeerConnection} :
        /\ stt_server.run = "serving"
        /\ websocket \notin stt_server.accepted
        /\ open_at_client(websocket)
        /\ stt_server' = data_handler_enter(stt_server, websocket)
        /\ UNCHANGED <<editor, stt_client, hist, call, received, finals, edited,
                       outbound, beside_audio>>

\* data_handler takes the next binary message of the connection
DataHandler ==
    \E websocket \in stt_server.data_handlers :
        /\ outbound.wire # <<>>
        /\ stt_server' = data_handler(stt_server, websocket, Head(outbound.wire))
        /\ outbound' = [outbound EXCEPT !.wire = Tail(@)]
        /\ UNCHANGED <<editor, stt_client, hist, call, received, finals, edited,
                       beside_audio>>

\* data_handler finds the connection closed by its client
DataHandlerExit ==
    \E websocket \in stt_server.data_handlers :
        /\ outbound.wire = <<>>
        /\ ~open_at_client(websocket)
        /\ stt_server' = data_handler_finally(stt_server, websocket)
        /\ UNCHANGED <<editor, stt_client, hist, call, received, finals, edited,
                       outbound, beside_audio>>

\* binary messages of a data client: audio messages and malformed ones
\* (too short, a declared length beyond the message, a declared length short
\* of the metadata, metadata that is no UTF-8 text, that is no JSON, that
\* has no sampleRate)
PeerMessages ==
    { audio_message([sampleRate |-> r, timestamp |-> 0], a) :
          r \in SampleRates, a \in Chunks }
    \cup { <<1, 0>>,
           <<200, 0, 0, 0, LBRACE, RBRACE>>,
           <<3, 0, 0, 0>> \o json_dumps([sampleRate |-> 16000, timestamp |-> 0]),
           <<1, 0, 0, 0, 255, 1>>,
           <<1, 0, 0, 0, LBRACE, 1>>,
           <<4, 0, 0, 0, LBRACE, KEY_timestamp, 48, RBRACE, 1>> }

\* a data client other than the terminal client connects
PeerConnects ==
    /\ outbound.peer = "none"
    /\ stt_client.data_ws = "none"
    /\ outbound' = [outbound EXCEPT !.peer = "open"]
    /\ UNCHANGED <<editor, stt_client, hist, call, received, finals, edited,
                   stt_server, beside_audio>>

\* that client closes its connection
PeerCloses ==
    /\ outbound.peer = "open"
    /\ outbound' = [outbound EXCEPT !.peer = "closed"]
    /\ UNCHANGED <<editor, stt_client, hist, call, received, finals, edited,
                   stt_server, beside_audio>>

\* that client writes a binary message
PeerSends ==
    \E message \in PeerMessages :
        /\ outbound.peer = "open"
        /\ outbound.written < MaxChunks
        /\ outbound' = [outbound EXCEPT !.wire = data_ws_send(@, message),
                                        !.written = @ + 1]
        /\ UNCHANGED <<editor, stt_client, hist, call, received, finals, edited,
                       stt_server, beside_audio>>

-----------------------------------------------------------------------------
(* Actions of the control channel of the server *)

ClientActions == {"start_recording", "stop_recording", "pause_recording", "resume_recording"}

ParameterNames == {"language", "use_wake_words", "model", "nothing", absent}

ParameterValues == {"en", "ru"}

\* the texts a control client may write: the commands of the terminal
\* client, set_parameter and get_parameter of any name, another command, a
\* JSON value that is no object and a text that is no JSON
ControlMessages ==
    { client_command(a) : a \in ClientActions }
    \cup { parameter_command("set_parameter", n, v) : n \in ParameterNames, v \in ParameterValues }
    \cup { parameter_command("get_parameter", n, absent) : n \in ParameterNames }
    \cup { parameter_command("shutdown", absent, absent),
           [client_command(absent) EXCEPT !.json = "array"],
           [client_command(absent) EXCEPT !.json = "invalid"] }

\* control_handler takes the next text of a control connection
ControlHandler ==
    \E message \in ControlMessages :
        /\ stt_server.run = "serving"
        /\ stt_server.control.handled < MaxCommands
        /\ stt_server' = control_handler(stt_server, message)
        /\ UNCHANGED <<editor, stt_client, hist, call, received, finals, edited,
                       outbound, beside_audio>>

-----------------------------------------------------------------------------
(* Actions of the recorder callbacks and of the broadcast of their events *)

\* the realtime thread of the recorder enters text_detected with the text
\* of the utterance in progress
TextDetectedEnters ==
    \E text \in RecorderTexts :
        /\ stt_server.recorder = "ready"
        /\ stt_server.realtime_thread.pc = "idle"
        /\ stt_server.utterance.callbacks < MaxBroadcast
        /\ stt_server' = text_detected_enter(stt_server, text)
        /\ UNCHANGED <<editor, stt_client, hist, call, received, finals, edited,
                       outbound, beside_audio>>

\* the realtime thread goes on to put its message
TextDetectedPuts ==
    /\ stt_server.realtime_thread.pc = "entered"
    /\ stt_server' = text_detected_put(stt_server)
    /\ UNCHANGED <<editor, stt_client, hist, call, received, finals, edited,
                   outbound, beside_audio>>

\* the recorder reports the text of the utterance in progress
TextDetected ==
    \E text \in RecorderTexts :
        /\ stt_server.recorder = "ready"
        /\ stt_server.realtime_thread.pc = "idle"
        /\ stt_server.utterance.callbacks < MaxBroadcast
        /\ stt_server' = text_detected(stt_server, text)
        /\ UNCHANGED <<editor, stt_client, hist, call, received, finals, edited,
                       outbound, beside_audio>>

\* recorder.text() returns the final text of an utterance
ProcessFinalText ==
    \E text \in RecorderTexts :
        /\ stt_server.recorder = "ready"
        /\ stt_server.utterance.callbacks < MaxBroadcast
        /\ stt_server' = process_final_text(stt_server, text)
        /\ UNCHANGED <<editor, stt_client, hist, call, received, finals, edited,
                       outbound, beside_audio>>

\* the data connections that are open at their clients
open_connections == { c \in {TerminalConnection, PeerConnection} : open_at_client(c) }

\* one iteration of broadcast_audio_messages: the event put first is taken
\* off audio_queue and sent to every data connection; what is written to the
\* connection of the terminal client arrives on its data channel
BroadcastNext ==
    /\ stt_server.audio_queue # <<>>
    /\ LET srv == broadcast_audio_messages(stt_server, open_connections)
           sent == srv.broadcast[Len(srv.broadcast)]
       IN  /\ stt_server' = srv
           /\ data_channel' = [data_channel EXCEPT ![TerminalConnection] =
                  IF TerminalConnection \in sent.to THEN Append(@, sent.message) ELSE @]
           /\ inbound' = [inbound EXCEPT !.received[TerminalConnection] =
                  IF TerminalConnection \in sent.to THEN Append(@, sent.message) ELSE @]
    /\ UNCHANGED <<editor, stt_client, hist, call, received, finals, edited,
                   transcription_editor, framing, outbound, parakeet_client, http_server,
                   minimal_editor>>

-----------------------------------------------------------------------------
(* Actions of the HTTP clients and server *)

\* the calls of transcribe_with_retry: max_retries and what the API does
\* with each request it may get
RetryInputs ==
    { [NoCall EXCEPT !.pc = "called", !.max_retries = n, !.responses = rs] :
          n \in 0..MaxRetries, rs \in [1..(MaxRetries + 1) -> Responses] }

TranscribeWithRetry ==
    /\ parakeet_client.pc = "called"
    /\ LET returned == transcribe_with_retry(parakeet_client.responses,
                                             parakeet_client.max_retries)
       IN  parakeet_client' = [parakeet_client EXCEPT
                                  !.pc = "returned",
                                  !.result = returned.result,
                                  !.log = returned.log]
    /\ UNCHANGED <<editor, stt_client, hist, call, received, finals, edited,
                   data_channel, transcription_editor, inbound,
                   framing, outbound, stt_server, http_server, minimal_editor>>

\* run_http_server(): start()
Start ==
    \E transcriber_ok \in BOOLEAN :
        /\ http_server.site = "not_started"
        /\ http_server' = start(http_server, transcriber_ok)
        /\ UNCHANGED <<editor, stt_client, hist, call, received, finals, edited,
                       data_channel, transcription_editor, inbound,
                       framing, outbound, stt_server, parakeet_client, minimal_editor>>

\* the site hands a POST /transcribe request to the handler
HandleTranscribe ==
    \E request \in Requests :
        /\ http_server.site = "started"
        /\ Len(http_server.log) < MaxRequests
        /\ http_server' = handle_transcribe(http_server, request)
        /\ UNCHANGED <<editor, stt_client, hist, call, received, finals, edited,
                       data_channel, transcription_editor, inbound,
                       framing, outbound, stt_server, parakeet_client, minimal_editor>>

-----------------------------------------------------------------------------
(* Actions of the batch editor *)

\* what is left unchanged by a step of the batch editor
beside_batch == <<editor, stt_client, hist, call, received, finals, edited,
                 data_channel, transcription_editor, inbound,
                 framing, outbound, stt_server, parakeet_client, http_server>>

\* the user presses F5
F5 ==
    /\ minimal_editor.presses < MaxPresses
    /\ minimal_editor' = toggle_recording(minimal_editor)
    /\ UNCHANGED beside_batch

\* the event loop runs the task created first
RunTask ==
    \E device_ok \in BOOLEAN :
        /\ minimal_editor.tasks # <<>>
        /\ LET ed == [minimal_editor EXCEPT !.tasks = Tail(minimal_editor.tasks)]
           IN  minimal_editor' =
                   IF Head(minimal_editor.tasks) = "start_recording"
                   THEN MinimalSTTEditor_start_recording(ed, device_ok)
                   ELSE stop_recording_and_transcribe_enter(ed)
        /\ UNCHANGED beside_batch

\* the recording task takes a turn
RecordingLoop ==
    /\ minimal_editor.recording_task = "running"
    /\ minimal_editor.is_recording
    /\ minimal_editor.audio_buffer.frames < MaxReads * chunk_bytes
    /\ minimal_editor' = recording_loop(minimal_editor)
    /\ UNCHANGED beside_batch

\* a task suspended on the cancelled recording task goes on
StopResumes ==
    /\ minimal_editor.awaiting > 0
    /\ minimal_editor' = stop_recording_and_transcribe_resume(minimal_editor)
    /\ UNCHANGED beside_batch

\* transcribe_with_retry returns in its executor thread
TranscriptionReturns ==
    \E result \in {"text", "empty", "error"} :
        /\ minimal_editor.transcribing > 0
        /\ minimal_editor' = stop_recording_and_transcribe_finish(minimal_editor, result)
        /\ UNCHANGED beside_batch

-----------------------------------------------------------------------------
(* Specifications *)

\* the reconciler: a connected session, inbound text messages, the user
NextEditor ==
    \/ Connect(TRUE, TRUE, "ok")
    \/ ReceiveText
    \/ MoveCursor
    \/ TypeChar
    \/ ClearAllText

SpecEditor == Init /\ [][NextEditor]_vars

\* the reconciler in a document that holds typed and pasted whitespace
NextSpacing ==
    \/ Connect(TRUE, TRUE, "ok")
    \/ ReceiveText
    \/ TypeChar
    \/ Paste

SpecSpacing == Init /\ [][NextSpacing]_vars

\* the recording state machine and the session transport
NextClient ==
    \/ ConnectAny
    \/ Disconnect
    \/ StartRecording
    \/ StopRecording
    \/ PauseRecording
    \/ ResumeRecording
    \/ ToggleRecordingPause
    \/ ReceiveRecording
    \/ ReceiveOther
    \/ CaptureTask
    \/ ChannelLost
    \/ HandlerExit

SpecClient == Init /\ [][NextClient]_vars

\* the inbound path of the two clients under one server broadcast
NextInbound ==
    \/ Connect(TRUE, TRUE, "ok")
    \/ TkConnect
    \/ ServerSends
    \/ HandleNext
    \/ TkHandleNext
    \/ TkMainloop

SpecInbound == Init /\ [][NextInbound]_vars

\* the event loop runs every task that is ready: the inbound loop sees the
\* end of its channel, a capture task takes its next turn
SpecClientLive ==
    SpecClient /\ WF_vars(HandlerExit) /\ WF_vars(CaptureTask)

\* the session transport with the awaits of disconnect() as scheduling
\* points; the event loop runs every task that is ready
NextDisconnect ==
    \/ NextClient
    \/ DisconnectSuspends
    \/ DisconnectResumes

SpecDisconnect ==
    /\ Init /\ [][NextDisconnect]_vars
    /\ WF_vars(HandlerExit) /\ WF_vars(CaptureTask) /\ WF_vars(DisconnectResumes)

\* the wire format: every chunk and metadata, encoded, cut anywhere, decoded
InitFraming ==
    /\ Constructed
    /\ framing \in FramingInputs
    /\ parakeet_client = NoCall

NextFraming ==
    \/ BuildMessage
    \/ DecodeMessage

SpecFraming == InitFraming /\ [][NextFraming]_vars

\* the audio path from the capture loop of the terminal client to the recorder
NextAudio ==
    \/ Run
    \/ Connect(TRUE, TRUE, "ok")
    \/ DataHandlerEnter
    \/ CaptureChunk
    \/ PauseRecording
    \/ ResumeRecording
    \/ DataHandler
    \/ Disconnect
    \/ DataHandlerExit

SpecAudio == Init /\ [][NextAudio]_vars

\* the events of the recorder, from its callbacks to the terminal editor
NextUtterance ==
    \/ Run
    \/ Connect(TRUE, TRUE, "ok")
    \/ DataHandlerEnter
    \/ TextDetected
    \/ ProcessFinalText
    \/ BroadcastNext
    \/ HandleNext

SpecUtterance == Init /\ [][NextUtterance]_vars

\* the same with the two threads of the recorder running side by side: the
\* realtime thread may be anywhere in text_detected when the recorder thread
\* calls process_final_text
NextCallbacks ==
    \/ Run
    \/ Connect(TRUE, TRUE, "ok")
    \/ DataHandlerEnter
    \/ TextDetectedEnters
    \/ TextDetectedPuts
    \/ ProcessFinalText
    \/ BroadcastNext
    \/ HandleNext

SpecCallbacks == Init /\ [][NextCallbacks]_vars

\* transcribe_with_retry, for every max_retries and every behaviour of the API
InitRetry ==
    /\ Constructed
    /\ framing = NoFraming
    /\ parakeet_client \in RetryInputs

NextRetry == TranscribeWithRetry

SpecRetry == InitRetry /\ [][NextRetry]_vars

\* the HTTP server and its POST /transcribe requests
NextHTTP ==
    \/ Start
    \/ HandleTranscribe

SpecHTTP == Init /\ [][NextHTTP]_vars

\* the control handler under the texts of any control client
NextControl ==
    \/ Run
    \/ ControlHandler

SpecControl == Init /\ [][NextControl]_vars

\* the broadcast of the recorder's events to the data connections, which
\* come and go
NextBroadcast ==
    \/ Run
    \/ PeerConnects
    \/ Connect(TRUE, TRUE, "ok")
    \/ DataHandlerEnter
    \/ TextDetected
    \/ ProcessFinalText
    \/ BroadcastNext
    \/ PeerCloses
    \/ DataHandlerExit

SpecBroadcast == Init /\ [][NextBroadcast]_vars

\* the server from its start to its shutdown; main() runs run() as soon as
\* the server is constructed
NextStartup ==
    \/ Run
    \/ ControlHandler
    \/ Shutdown

SpecStartup == Init /\ [][NextStartup]_vars /\ WF_vars(Run)

\* the batch editor under F5
NextBatch ==
    \/ F5
    \/ RunTask
    \/ RecordingLoop
    \/ StopResumes
    \/ TranscriptionReturns

SpecBatch == Init /\ [][NextBatch]_vars

\* the data handler under the binary messages of any data client
NextDataHandler ==
    \/ Run
    \/ PeerConnects
    \/ PeerSends
    \/ DataHandlerEnter
    \/ DataHandler

SpecDataHandler == Init /\ [][NextDataHandler]_vars

-----------------------------------------------------------------------------
(* Vocabulary of the properties *)

\* a provisional span is recorded
live(ed) == ed.realtime_start_pos # None

\* the n characters of doc from offset from on
slice(doc, from, n) == SubSeq(doc, from + 1, from + n)

\* doc without those characters
without(doc, from, n) == SubSeq(doc, 1, from) \o SubSeq(doc, from + n + 1, Len(doc))

\* doc with s inserted at offset pos
inserted(doc, pos, s) == SubSeq(doc, 1, pos) \o s \o SubSeq(doc, pos + 1, Len(doc))

\* offset pos is preceded, on its line, by a character that is not a space
after_word(doc, pos) == pos > 0 /\ doc[pos] # "\n" /\ doc[pos] # " "

\* s as the leading-space rule inserts it at offset pos
spaced(doc, pos, s) == IF after_word(doc, pos) THEN <<" ">> \o s ELSE s

\* the provisional text as it stands in the document: the recorded text
\* behind the space that was put before it, if one was
span_text(ed) == spaced(ed.text, ed.realtime_start_pos, ed.current_text)

\* the cursor stands where the insertion of the span left it
at_span_end(ed) == ed.cursor_position = ed.realtime_start_pos + Len(span_text(ed))

blank(text) == strip(text) = <<>>

\* the messages handled last (h2) and before it (h1), with no user action since
h2 == hist[Len(hist)]
h1 == hist[1]
two == Len(hist) = 2

\* the handling of message h reaches remove_realtime_text with a span recorded
removes(h) ==
    /\ live(h.editor)
    /\ \/ h.op = "realtime" /\ h.text # h.editor.current_text
       \/ h.op = "fullSentence"

\* what the handling of message h inserts: nothing, or its text with or
\* without a space before it
insertions(h) ==
    IF blank(h.text) THEN { <<>> }
    ELSE LET t == IF h.op = "realtime" THEN strip(h.text) ELSE h.text
         IN  { t, <<" ">> \o t }

RECURSIVE joined(_)
\* the sentences of fs one after the other under the leading-space rule
joined(fs) ==
    IF fs = <<>> THEN <<>>
    ELSE LET sofar == joined(SubSeq(fs, 1, Len(fs) - 1))
         IN  sofar \o spaced(sofar, Len(sofar), fs[Len(fs)])

-----------------------------------------------------------------------------
(* C1 .. C7: the reconciler *)

\* C1: whenever the handling of a message removes the provisional text, the
\* document afterwards is the document before with exactly the characters of
\* the span taken out (and the new text, if any, put in), wherever the user
\* has moved the cursor since the span was inserted.
C1_RemovesExactlyTheSpan ==
    (hist # <<>> /\ removes(h2)) =>
        LET pre == h2.editor
            rest == without(pre.text, pre.realtime_start_pos, Len(span_text(pre)))
        IN  \E pos \in 0..Len(rest), s \in insertions(h2) :
                editor.text = inserted(rest, pos, s)

\* C2, second half: the span is cleared after every committed final
\* sentence and after every empty realtime update.
cleared_when_due ==
    (hist # <<>> /\ \/ h2.op = "fullSentence" /\ ~blank(h2.text)
                    \/ h2.op = "realtime" /\ h2.text = <<>>)
        => ~live(editor) /\ editor.current_text = <<>>

C3_NewerGuessReplaces ==
    (/\ two
     /\ h1.op = "realtime" /\ h2.op = "realtime"
     /\ h1.text # <<>> /\ h2.text # <<>> /\ h1.text # h2.text
     /\ live(h1.editor) => at_span_end(h1.editor))
        => editor.text = on_realtime_text_received(h1.editor, h2.text).text

\* document "a " with the cursor at its end, "a" then "b": "a b"
C3_Witness ==
    /\ two
    /\ h1.op = "realtime" /\ h1.text = <<"a">>
    /\ h2.op = "realtime" /\ h2.text = <<"b">>
    /\ h1.editor.text = <<"a", " ">> /\ h1.editor.cursor_position = 2
    /\ editor.text = <<"a", " ", "b">>

\* C4: on_realtime(p), p non-empty, then a fullSentence f that is not blank
\* leaves the original document with f inserted at the original cursor under
\* the leading-space rule, and no provisional state.
C4_FinalReplacesProvisional ==
    (/\ two
     /\ h1.op = "realtime" /\ h1.text # <<>>
     /\ h2.op = "fullSentence" /\ ~blank(h2.text)
     /\ ~live(h1.editor))
        => LET orig == h1.editor
           IN  /\ editor.text =
                      inserted(orig.text, orig.cursor_position,
                               spaced(orig.text, orig.cursor_position, h2.text))
               /\ editor.realtime_start_pos = None
               /\ editor.current_text = <<>>

\* a provisional text shown behind a word and before more text, then a final
C4_Witness ==
    /\ two
    /\ h1.op = "realtime" /\ ~blank(h1.text)
    /\ h2.op = "fullSentence" /\ ~blank(h2.text)
    /\ ~live(h1.editor)
    /\ after_word(h1.editor.text, h1.editor.cursor_position)
    /\ h1.editor.cursor_position < Len(h1.editor.text)

\* C5: on_realtime(p), p non-empty, then a fullSentence whose text is empty
\* or blank restores the document, leaves no provisional state, and does not
\* write the clipboard.
C5_BlankFinalCancels ==
    (/\ two
     /\ h1.op = "realtime" /\ h1.text # <<>>
     /\ h2.op = "fullSentence" /\ blank(h2.text)
     /\ ~live(h1.editor))
        => /\ editor.text = h1.editor.text
           /\ editor.realtime_start_pos = None
           /\ editor.current_text = <<>>
           /\ ~editor.copied
           /\ editor.clipboard = h1.editor.clipboard

\* a provisional text was shown inside a document and a blank final followed
C5_Witness ==
    /\ two
    /\ h1.op = "realtime" /\ ~blank(h1.text)
    /\ h2.op = "fullSentence" /\ blank(h2.text)
    /\ ~live(h1.editor)
    /\ h1.editor.text # <<>>
    /\ h2.editor.text # h1.editor.text

\* C6: on_realtime(t) twice in a row leaves the document, the cursor and the
\* provisional span as the first call left them.
C6_RealtimeIdempotent ==
    (/\ two
     /\ h1.op = "realtime" /\ h2.op = "realtime"
     /\ h1.text = h2.text)
        => /\ editor.text = h2.editor.text
           /\ editor.cursor_position = h2.editor.cursor_position
           /\ editor.current_text = h2.editor.current_text
           /\ editor.realtime_start_pos = h2.editor.realtime_start_pos

\* the same text with outer whitespace twice, over a span the cursor had left
C6_Witness ==
    /\ two
    /\ h1.op = "realtime" /\ h2.op = "realtime"
    /\ h1.text = h2.text
    /\ h1.text # strip(h1.text) /\ ~blank(h1.text)
    /\ h1.editor.text # <<>>

-----------------------------------------------------------------------------
(* C8 .. C10: the recording state machine *)

\* the three recording states, read off the client's flags
Idle(cl) == ~cl.is_recording
Listening(cl) == cl.is_recording /\ ~cl.is_paused
Paused(cl) == cl.is_recording /\ cl.is_paused

\* the call left the recording state and the capture handle alone and sent
\* no control command
no_op_since(pre) ==
    /\ stt_client.is_recording = pre.is_recording
    /\ stt_client.is_paused = pre.is_paused
    /\ stt_client.audio_stream = pre.audio_stream
    /\ stt_client.pyaudio_instance = pre.pyaudio_instance
    /\ stt_client.open_streams = pre.open_streams
    /\ stt_client.closes = 0
    /\ stt_client.sent = <<>>

\* C8: start_recording() called while the client is Listening or Paused is a
\* no-op: same recording state, no second capture handle, no start_recording
\* command, no further capture task.
C8_StartWhileRecordingIsNoOp ==
    (call.op = "start_recording" /\ call.stt_client.is_recording) =>
        /\ no_op_since(call.stt_client)
        /\ stt_client.capture_tasks = call.stt_client.capture_tasks

\* C9: pause from Idle or Paused, resume from Idle or Listening and stop from
\* Idle leave the recording state and the capture handle unchanged and send
\* no control command.
C9_InvalidTransitionsAreNoOps ==
    LET pre == call.stt_client
    IN  (\/ call.op = "pause_recording" /\ (Idle(pre) \/ Paused(pre))
         \/ call.op = "resume_recording" /\ (Idle(pre) \/ Listening(pre))
         \/ call.op = "stop_recording" /\ Idle(pre))
            => no_op_since(pre)

\* resume called in the Idle state that stop leaves behind a pause, the
\* capture handle of a later start still open
C9_Witness ==
    /\ call.op = "resume_recording"
    /\ Idle(call.stt_client)
    /\ call.stt_client.is_paused
    /\ call.stt_client.is_connected
    /\ call.stt_client.audio_stream = "open"

\* C10: stop from Listening or Paused ends in Idle, releases the capture
\* handle the client holds by exactly one close, and sends exactly one
\* stop_recording on the open control channel.
C10_StopReleasesOnce ==
    LET pre == call.stt_client
    IN  (call.op = "stop_recording" /\ pre.is_recording /\ pre.control_ws = "open") =>
            /\ Idle(stt_client)
            /\ stt_client.sent = <<"stop_recording">>
            /\ stt_client.audio_stream = "none"
            /\ stt_client.pyaudio_instance = "none"
            /\ stt_client.closes = (IF pre.audio_stream = "open" THEN 1 ELSE 0)
            /\ stt_client.open_streams = pre.open_streams - stt_client.closes

\* stop called while Paused with the capture handle held
C10_Witness ==
    /\ call.op = "stop_recording"
    /\ Paused(call.stt_client)
    /\ call.stt_client.audio_stream = "open"
    /\ call.stt_client.control_ws = "open"
    /\ Idle(stt_client)
    /\ stt_client.closes = 1

-----------------------------------------------------------------------------
(* C11 .. C13: the recording states and the capture handle *)

\* the last client operation asked for a start: start_recording(), or F5
\* pressed in the Idle state
start_called == call.op \in {"start_recording", "toggle_recording_pause"}

\* the recording state as one value
recording_state(cl) ==
    IF Idle(cl) THEN "Idle" ELSE IF Paused(cl) THEN "Paused" ELSE "Listening"

\* the transitions of the design
Transitions ==
    { <<"Idle", "Listening">>, <<"Listening", "Paused">>, <<"Paused", "Listening">>,
      <<"Listening", "Idle">>, <<"Paused", "Idle">> }

\* C11: a start from Idle with the device available and both channels open
\* ends in Listening, whatever preceded it, and the recording state only
\* ever moves along Idle -> Listening, Listening <-> Paused and
\* Listening | Paused -> Idle.
C11_StartFromIdleListens ==
    LET pre == call.stt_client
    IN  /\ (/\ start_called
            /\ call.arg = <<"ok">>
            /\ Idle(pre)
            /\ pre.is_connected /\ pre.control_ws = "open" /\ pre.data_ws = "open")
               => Listening(stt_client)
        /\ \/ recording_state(pre) = recording_state(stt_client)
           \/ <<recording_state(pre), recording_state(stt_client)>> \in Transitions

\* C12: pause from Listening ends in Paused and sends pause_recording on the
\* open control channel; a turn of the capture task taken while the client
\* is Paused writes no audio message, and with the capture stream open the
\* task stays in its loop.
C12_PausedAudioIsDiscarded ==
    LET pre == call.stt_client
    IN  /\ (call.op \in {"pause_recording", "toggle_recording_pause"} /\ Listening(pre))
               => /\ Paused(stt_client)
                  /\ pre.control_ws = "open" => stt_client.sent = <<"pause_recording">>
        /\ (call.op = "audio_capture_task" /\ Paused(pre))
               => /\ stt_client.audio = 0
                  /\ pre.audio_stream = "open" =>
                         stt_client.capture_tasks = pre.capture_tasks

\* a chunk read while Paused, stream and data channel open, is not sent
C12_Witness ==
    /\ call.op = "audio_capture_task"
    /\ Paused(call.stt_client)
    /\ call.stt_client.audio_stream = "open"
    /\ call.stt_client.data_ws = "open"
    /\ stt_client.capture_tasks > 0
    /\ stt_client.audio = 0

\* C13: the client holds an open capture stream exactly when its recording
\* state is not Idle.
C13_HandleIffNotIdle ==
    (stt_client.audio_stream = "open") <=> ~Idle(stt_client)

-----------------------------------------------------------------------------
(* C14 .. C19: the session transport *)

both_open(cl) == cl.control_ws = "open" /\ cl.data_ws = "open"
none_open(cl) == cl.control_ws # "open" /\ cl.data_ws # "open"

\* C14: after a connect() attempt either both channels are open and the
\* client is marked connected, or no channel is open, the client is marked
\* not connected, and the failure was reported.
C14_ConnectAllOrNothing ==
    call.op = "connect" =>
        \/ both_open(stt_client) /\ stt_client.is_connected
        \/ none_open(stt_client) /\ ~stt_client.is_connected /\ stt_client.raised

\* C15: disconnect() leaves no channel open and no capture stream open, and
\* a disconnect() called after a disconnect() changes no state, closes no
\* stream and raises nothing.
C15_DisconnectIdempotent ==
    LET pre == call.stt_client
    IN  call.op = "disconnect" =>
            /\ none_open(stt_client)
            /\ stt_client.audio_stream # "open"
            /\ pre.should_exit => stt_client = begin_call(pre)

\* C16: the first send_audio_chunk on a data channel that has ended raises
\* to its caller, and every later one neither raises nor writes.
C16_ChannelClosedSurfacedOnce ==
    LET pre == call.stt_client
    IN  (call.op = "audio_capture_task" /\ stt_client.closed_sends > pre.closed_sends)
            => /\ stt_client.audio = 0
               /\ stt_client.raised <=> (pre.closed_sends = 0)

\* C17: when the data channel has closed under a running inbound loop and
\* disconnect() has not been called, the status shown eventually is Offline
\* (or disconnect() is called).
C17_LostConnectionIsShown ==
    (/\ stt_client.data_ws = "closed"
     /\ stt_client.handler_tasks > 0
     /\ ~stt_client.should_exit)
        ~> (get_right_status(editor, stt_client) = "Offline" \/ stt_client.should_exit)

\* C18: a channel comes to be open only in a connect() call, and a step taken
\* with the data channel ended writes no audio message.
C18_NoReconnectOutsideConnect ==
    [][ /\ \A ch \in {"control_ws", "data_ws"} :
               (stt_client[ch] # "open" /\ stt_client'[ch] = "open") => call'.op = "connect"
        /\ stt_client.data_ws = "closed" => stt_client'.audio = 0 ]_vars

\* the capture task reads a chunk, unpaused, after the data channel ended and
\* the inbound loop has left: nothing is written and nothing is reopened
C18_Witness ==
    /\ call.op = "audio_capture_task"
    /\ Listening(call.stt_client)
    /\ call.stt_client.audio_stream = "open"
    /\ call.stt_client.data_ws = "closed"
    /\ call.stt_client.handler_tasks = 0
    /\ stt_client.closed_sends > 0
    /\ stt_client.data_ws = "closed"

\* C19: a message that is no recognised event leaves the recording state
\* alone and leaves the inbound loop running.
C19_UnrecognisedIsDropped ==
    LET pre == call.stt_client
    IN  call.op \in { m.type : m \in OtherMessages } =>
            /\ stt_client.is_recording = pre.is_recording
            /\ stt_client.is_paused = pre.is_paused
            /\ stt_client.handler_tasks = pre.handler_tasks
            /\ handler_running

-----------------------------------------------------------------------------
(* C20: the inbound path *)

RECURSIVE applied_editor(_)
\* the editor after the messages ms were handled one after the other, each
\* completely, from the state after construction
applied_editor(ms) ==
    IF ms = <<>> THEN InitEditor
    ELSE LET sofar == applied_editor(SubSeq(ms, 1, Len(ms) - 1))
             msg == ms[Len(ms)]
         IN  IF msg \in TextMessages
             THEN dispatch_text_message([sofar EXCEPT !.copied = FALSE], msg)
             ELSE sofar

RECURSIVE applied_recording(_)
\* is_recording after the messages ms were handled one after the other by a
\* client that connect() left recording
applied_recording(ms) ==
    IF ms = <<>> THEN TRUE
    ELSE LET msg == ms[Len(ms)]
         IN  IF msg.type = "recording_start" THEN TRUE
             ELSE IF msg.type = "recording_stop" THEN FALSE
             ELSE applied_recording(SubSeq(ms, 1, Len(ms) - 1))

\* a Tk callback that changes the document or the recognition panel
is_mutation(cb) == cb.fn \in {"update_realtime_text", "append_sentence"}
mutations(cbs) == SelectSeq(cbs, is_mutation)

RECURSIVE scheduled(_)
\* the mutations the messages ms call for, in the order of ms
scheduled(ms) ==
    IF ms = <<>> THEN <<>>
    ELSE scheduled(SubSeq(ms, 1, Len(ms) - 1))
         \o handle_data_messages([after |-> <<>>], ms[Len(ms)], Len(ms)).after

RECURSIVE ran(_)
\* the Tk widgets after the callbacks cbs ran one after the other
ran(cbs) ==
    IF cbs = <<>> THEN InitTranscriptionEditor
    ELSE run_callback(ran(SubSeq(cbs, 1, Len(cbs) - 1)), cbs[Len(cbs)])

\* every client takes the messages of its data channel in the order they
\* were written to it, and one task does so
taken_in_receipt_order ==
    /\ \A c \in Clients : inbound.received[c] = inbound.handled[c] \o data_channel[c]
    /\ stt_client.handler_tasks <= 1

\* the terminal editor: the messages taken have all been handled completely,
\* one after the other
terminal_handled_in_order ==
    LET done == inbound.handled["stt_client"]
    IN  /\ editor = applied_editor(done)
        /\ done # <<>> => stt_client.is_recording = applied_recording(done)

\* the Tk editor: the mutations that have run followed by those still
\* scheduled are the mutations of the messages taken, in receipt order, and
\* the widgets show the result of those that have run
tk_applied_in_order ==
    LET app == transcription_editor
        done == mutations(app.applied)
    IN  /\ done \o mutations(app.after) = scheduled(inbound.handled["transcription_editor"])
        /\ app.text_area = ran(done).text_area
        /\ app.status_text = ran(done).status_text

\* the Tk editor: no mutation of an earlier message is still to run when a
\* message has been taken
tk_mutation_done_before_next ==
    \A i \in DOMAIN transcription_editor.after :
        is_mutation(transcription_editor.after[i]) =>
            transcription_editor.after[i].of = Len(inbound.handled["transcription_editor"])

\* C20 as stated: events are applied in receipt order by a single inbound
\* task, and the handling of a message, its document mutation included, is
\* complete before the handling of the next message begins.
C20_HandlingCompletesBeforeNext ==
    /\ taken_in_receipt_order
    /\ terminal_handled_in_order
    /\ tk_applied_in_order
    /\ tk_mutation_done_before_next

\* C20 amended: events are applied in receipt order by a single inbound task;
\* in the terminal editor the handling of a message, its document mutation
\* included, is complete before the next message is taken; in the Tk editor
\* the inbound task schedules the mutation on the main loop, which runs the
\* scheduled mutations in receipt order, possibly after later messages have
\* been taken.
C20_AppliedInReceiptOrder ==
    /\ taken_in_receipt_order
    /\ terminal_handled_in_order
    /\ tk_applied_in_order

\* both clients have taken a realtime text and the final sentence that
\* follows it; the terminal editor shows the sentence, in the Tk editor both
\* mutations are still to run
C20_Witness ==
    /\ Len(inbound.handled["stt_client"]) = 2
    /\ inbound.handled["stt_client"][1].type = "realtime"
    /\ inbound.handled["stt_client"][2].type = "fullSentence"
    /\ ~blank(inbound.handled["stt_client"][1].text)
    /\ ~blank(inbound.handled["stt_client"][2].text)
    /\ editor.text = inbound.handled["stt_client"][2].text
    /\ inbound.handled["transcription_editor"] = inbound.handled["stt_client"]
    /\ Len(mutations(transcription_editor.after)) = 2

-----------------------------------------------------------------------------
(* C21, C22, C29: the capture loop and the audio path *)

\* the chunks fed to the recorder
fed_chunks == [i \in 1..Len(stt_server.fed) |-> stt_server.fed[i].chunk]

\* the chunks of the audio messages in flight, as the server decodes them
chunks_in_flight == [i \in 1..Len(outbound.wire) |-> decode_message(outbound.wire[i]).chunk]

was_listening(c) == c.listening

\* the chunks the capture loop read while the client was Listening on an
\* open connection
chunks_listened ==
    LET cs == SelectSeq(outbound.captured, was_listening)
    IN  [i \in 1..Len(cs) |-> cs[i].audio_data]

\* C21: the audio the server has decoded and fed to the recorder, followed by
\* the audio of the messages still in flight, is the sequence of chunks the
\* capture loop read while the client was Listening on an open connection,
\* byte for byte and in capture order; nothing fed was resampled.
C21_AudioIsFIFO ==
    /\ fed_chunks \o chunks_in_flight = chunks_listened
    /\ \A i \in 1..Len(outbound.wire) : decode_message(outbound.wire[i]).error = "none"
    /\ \A i \in 1..Len(stt_server.fed) : ~stt_server.fed[i].resampled

\* three chunks, not all alike, were captured and all three were fed
C21_Witness ==
    /\ Len(stt_server.fed) = 3
    /\ Len(outbound.captured) = 3
    /\ outbound.wire = <<>>
    /\ stt_server.fed[1].chunk # stt_server.fed[2].chunk

\* C22: in every reachable state at most one capture task of the session has
\* not returned.
C22_SingleProducer ==
    stt_client.capture_tasks <= 1

\* the last call reached the opening of the capture device and the device
\* failed
device_failed ==
    \/ /\ call.op = "start_recording"
       /\ call.stt_client.is_connected
       /\ call.arg[1] # "ok"
    \/ /\ call.op = "toggle_recording_pause"
       /\ call.stt_client.is_connected
       /\ ~call.stt_client.is_recording
       /\ call.arg[1] # "ok"
    \/ /\ call.op = "connect"
       /\ call.arg[1] /\ call.arg[2]
       /\ call.arg[3] # "ok"

\* C29: after a start in which the capture device could not be opened the
\* client is not recording, the call has sent no command on the control
\* channel and has started no capture task.
C29_DeviceFailureNeverListens ==
    device_failed =>
        /\ ~stt_client.is_recording
        /\ stt_client.sent = <<>>
        /\ stt_client.capture_tasks = call.stt_client.capture_tasks

\* F5 from Idle on a connected session whose device cannot be opened
C29_Witness ==
    /\ call.op = "toggle_recording_pause"
    /\ device_failed
    /\ call.stt_client.control_ws = "open"
    /\ ~stt_client.is_recording

-----------------------------------------------------------------------------
(* C24 .. C26: the audio message *)

\* the value of four bytes read as a little-endian number
little_endian(b) == b[1] + 256 * b[2] + 65536 * b[3] + 16777216 * b[4]

\* the JSON text of the metadata given to the encoder
given_json == json_dumps(framing.metadata)

\* C24: the message the encoder builds is four bytes holding, little-endian,
\* the byte length of the JSON metadata, then that JSON, then the audio; and
\* decoding the whole message yields the metadata and the audio given.
C24_FramingRoundTrip ==
    /\ framing.pc \in {"message", "decoded"} =>
           /\ Len(framing.message) = 4 + Len(given_json) + Len(framing.audio_data)
           /\ \A i \in 1..4 : framing.message[i] \in 0..255
           /\ little_endian(framing.message) = Len(given_json)
           /\ SubSeq(framing.message, 5, 4 + Len(given_json)) = given_json
           /\ SubSeq(framing.message, 5 + Len(given_json), Len(framing.message))
                  = framing.audio_data
    /\ framing.pc = "decoded" /\ framing.arrived = framing.message =>
           /\ framing.decoded.error = "none"
           /\ framing.decoded.sampleRate = framing.metadata.sampleRate
           /\ framing.decoded.timestamp = framing.metadata.timestamp
           /\ framing.decoded.chunk = framing.audio_data

\* a whole message with empty audio, from a 44100 Hz device, was decoded
C24_Witness ==
    /\ framing.pc = "decoded"
    /\ framing.arrived = framing.message
    /\ framing.audio_data = <<>>
    /\ framing.decoded.sampleRate = 44100
    /\ framing.decoded.timestamp = 12

\* C25 as stated: decoding any proper prefix of a message fails and yields no
\* metadata / audio pair.
C25_TruncationIsRejected ==
    framing.pc = "decoded" /\ Len(framing.arrived) < Len(framing.message) =>
        framing.decoded.error # "none"

\* C25 amended: decoding a prefix that ends before the end of the metadata
\* fails (prefixes shorter than four bytes included) and yields no pair;
\* decoding a prefix that holds the whole metadata succeeds and yields the
\* metadata with the audio cut short.
C25_HeaderTruncationIsRejected ==
    framing.pc = "decoded" /\ Len(framing.arrived) < Len(framing.message) =>
        IF Len(framing.arrived) < 4 + Len(given_json)
        THEN /\ framing.decoded.error = "JSONDecodeError"
             /\ framing.decoded.chunk = <<>>
             /\ framing.decoded.sampleRate = None
        ELSE /\ framing.decoded.error = "none"
             /\ framing.decoded.sampleRate = framing.metadata.sampleRate
             /\ framing.decoded.chunk =
                    SubSeq(framing.audio_data, 1,
                           Len(framing.arrived) - 4 - Len(given_json))

\* three bytes of a message arrived and the decoding failed
C25_Witness ==
    /\ framing.pc = "decoded"
    /\ Len(framing.arrived) = 3
    /\ framing.audio_data # <<>>
    /\ framing.decoded.error = "JSONDecodeError"

\* C26: when the data handler has taken a malformed binary message the
\* connection is still among the data connections, its handler in its loop.
C26_MalformedIsDropped ==
    stt_server.last.error # "none" => PeerConnection \in stt_server.data_connections

-----------------------------------------------------------------------------
(* C23: the end of the session *)

\* C23: once disconnect() has been called every capture task and the inbound
\* loop return; no exception leaves a capture task or the inbound loop, the
\* send of a chunk on the closed data channel included.
C23_DisconnectEndsBothLoops ==
    /\ stt_client.should_exit ~>
           (stt_client.capture_tasks = 0 /\ stt_client.handler_tasks = 0)
    /\ [](call.op \in {"audio_capture_task", "message_handler_exit"} =>
              ~stt_client.raised)

\* disconnect() is suspended with the channels closed and the capture stream
\* open, and a capture task has sent a chunk on the closed data channel
C23_Witness ==
    /\ stt_client.closing
    /\ call.op = "audio_capture_task"
    /\ stt_client.data_ws = "closed"
    /\ stt_client.audio_stream = "open"
    /\ stt_client.closed_sends > 0
    /\ stt_client.handler_tasks > 0

-----------------------------------------------------------------------------
(* C27: the events of an utterance *)

\* every event the server has put was broadcast, taken and handled by the
\* terminal client, connected before the first of them
all_delivered ==
    /\ stt_server.audio_queue = <<>>
    /\ data_channel["stt_client"] = <<>>
    /\ Len(inbound.handled["stt_client"]) = stt_server.utterance.puts

\* C27: when an utterance has ended the server has put exactly one terminal
\* event for it; and once every event has been delivered and no utterance is
\* in progress the terminal editor shows no provisional text.
C27_OneTerminalEvent ==
    stt_server.utterance.finished =>
        /\ stt_server.utterance.terminal = 1
        /\ (all_delivered /\ stt_server.utterance.realtime = 0) => ~live(editor)

-----------------------------------------------------------------------------
(* C28, C30: the HTTP clients and server *)

\* a response that is not 2xx, or a transport error
failed_response(response) == response \in {"500", "timeout", "connection_error"}

\* C28: transcribe_with_retry with max_retries = N >= 0 makes its attempts one
\* after the other, the i-th attempt being the i-th request the API gets; an
\* attempt answered with a non-2xx status or ended by a transport error has
\* failed; no attempt follows a successful one; at least one and at most N+1
\* attempts are made, fewer than N+1 only when the last one made succeeded;
\* the result returned is that of the last attempt made, which is a failed
\* result carrying that attempt's error when every attempt failed.
C28_RetryUntilSuccess ==
    parakeet_client.pc = "returned" =>
        LET log == parakeet_client.log
            made == Len(log)
        IN  /\ made >= 1
            /\ made <= parakeet_client.max_retries + 1
            /\ \A i \in 1..made : log[i] = transcribe(parakeet_client.responses[i])
            /\ \A i \in 1..made :
                   failed_response(parakeet_client.responses[i]) => ~log[i].success
            /\ \A i \in 1..(made - 1) : ~log[i].success
            /\ made < parakeet_client.max_retries + 1 => log[made].success
            /\ parakeet_client.result = log[made]
            /\ ~parakeet_client.result.success =>
                   /\ made = parakeet_client.max_retries + 1
                   /\ parakeet_client.result.error # "none"

\* with max_retries = 2 the first attempt got a 500, the second succeeded
\* and no third was made
C28_Witness ==
    /\ parakeet_client.pc = "returned"
    /\ parakeet_client.max_retries = 2
    /\ parakeet_client.responses[1] = "500"
    /\ parakeet_client.responses[3] = "timeout"
    /\ Len(parakeet_client.log) = 2
    /\ parakeet_client.result.success

\* the last request carried no file: no body, no multipart form, or a form
\* whose file field is missing or empty
carries_no_file(request) ==
    request.body # "multipart" \/ audio_data_of(request.fields) # "data"

\* C30: a POST /transcribe request that carries no file is answered 400 when
\* the transcriber is initialised, and the transcriber is not called for it;
\* it is answered 503 when the transcriber is not initialised.
C30_NoFileIsBadRequest ==
    http_server.log # <<>> /\ carries_no_file(http_server.request) =>
        /\ ~http_server.invoked
        /\ http_server.status = IF http_server.transcriber = "ready" THEN 400 ELSE 503

-----------------------------------------------------------------------------
(* C31, C35: the leading-space rule and the recorded span *)

\* offset pos is preceded, on its line, by a character that is no whitespace
after_nonwhitespace(doc, pos) == pos > 0 /\ doc[pos] \notin Whitespace

\* C31: when the handling of a realtime or fullSentence message inserts a
\* text at the cursor of a document with no provisional span, the document
\* afterwards is the document before with the text put in at the cursor,
\* behind one space exactly when the cursor was preceded on its line by a
\* character that is no whitespace (space, tab), and behind nothing otherwise.
C31_LeadingSpaceRule ==
    (hist # <<>> /\ ~blank(h2.text) /\ ~live(h2.editor) /\ h2.editor.current_text = <<>>) =>
        LET t == IF h2.op = "realtime" THEN strip(h2.text) ELSE h2.text
            doc == h2.editor.text
            pos == h2.editor.cursor_position
        IN  editor.text =
                inserted(doc, pos, IF after_nonwhitespace(doc, pos) THEN <<" ">> \o t ELSE t)

\* C35: after a realtime or fullSentence message has been handled a start
\* offset is recorded exactly when the provisional text is not empty.
C35_StartRecordedIffProvisional ==
    hist # <<>> => (live(editor) <=> editor.current_text # <<>>)

\* a realtime text was handled over a live span and left a span; then a
\* blank final sentence was handled and left none
C35_Witness ==
    /\ two
    /\ h1.op = "realtime" /\ ~blank(h1.text) /\ live(h2.editor)
    /\ h2.op = "fullSentence" /\ blank(h2.text)
    /\ ~live(editor)
    /\ editor.current_text = <<>>

-----------------------------------------------------------------------------
(* C32: stop and pause against the capture loop *)

\* C32: a turn of the capture loop that follows stop_recording or
\* pause_recording (the client is not recording, or is paused) begins no read
\* of the capture device, and the device is read only by a turn of the
\* capture loop taken while the stream is held.
C32_NoReadAfterStopOrPause ==
    LET pre == call.stt_client
    IN  /\ (call.op = "audio_capture_task" /\ (~pre.is_recording \/ pre.is_paused))
               => stt_client.read = "none"
        /\ stt_client.read # "none"
               => (call.op = "audio_capture_task" /\ pre.audio_stream # "none")

-----------------------------------------------------------------------------
(* C33: the two callbacks of the recorder *)

\* C33: no realtime event of an utterance is put on audio_queue after the
\* fullSentence event of that utterance, and so none is broadcast after it:
\* the terminal editor shows no provisional text once it has handled, as the
\* last event the server put, the final sentence of the last utterance.
C33_NoRealtimeAfterFinal ==
    LET order == stt_server.utterance.order
    IN  \A i \in 1..Len(order) : \A j \in 1..Len(order) :
            (i < j /\ order[i].type = "fullSentence" /\ order[j].type = "realtime")
                => order[j].utterance # order[i].utterance

-----------------------------------------------------------------------------
(* C34, C36: the control channel *)

\* the message the control handler took last, and what it did with it
taken == stt_server.control

\* C34: when the control handler has taken a start, stop, pause or resume
\* command as the terminal client writes it, it has answered with exactly
\* one acknowledgement, and that is no error status.
C34_ClientCommandsAcknowledged ==
    (taken.handled > 0 /\ taken.message \in { client_command(a) : a \in ClientActions }) =>
        /\ Len(taken.replies) = 1
        /\ taken.replies[1].status # "error"

\* C36: the control handler changes an attribute of the recorder only on a
\* set_parameter whose name is an allowed parameter, and then that attribute
\* only, to the value given; it answers with a value only on a get_parameter
\* of an allowed parameter, and with the value of that attribute; on a
\* set_parameter or get_parameter of any other name, and on any command taken
\* before the recorder is ready, the recorder is left as it was and the one
\* answer is an error status.
C36_OnlyAllowedParameters ==
    taken.handled > 0 =>
        LET m == taken.message
            named == m.json = "object" /\ m.command \in {"set_parameter", "get_parameter"}
        IN  /\ stt_server.parameters # taken.before =>
                   /\ m.json = "object" /\ m.command = "set_parameter"
                   /\ m.parameter \in allowed_parameters
                   /\ stt_server.parameters = [taken.before EXCEPT ![m.parameter] = m.value]
            /\ \A i \in 1..Len(taken.replies) :
                   taken.replies[i].value # absent =>
                       /\ m.json = "object" /\ m.command = "get_parameter"
                       /\ m.parameter \in allowed_parameters
                       /\ taken.replies[i].value = taken.before[m.parameter]
            /\ ((named /\ m.parameter \notin allowed_parameters) \/ ~stt_server.recorder_ready) =>
                   /\ stt_server.parameters = taken.before
                   /\ Len(taken.replies) = 1
                   /\ taken.replies[1].status = "error"

\* set_parameter of an attribute of the recorder that is not allowed was
\* answered with an error, after an allowed one had been set
C36_Witness ==
    /\ taken.handled > 1
    /\ taken.message.command = "set_parameter"
    /\ taken.message.parameter = "model"
    /\ taken.replies = <<control_reply("error", "unavailable", absent, absent)>>
    /\ stt_server.parameters["language"] = "ru"
    /\ stt_server.parameters["model"] = "initial"

-----------------------------------------------------------------------------
(* C37, C38: the broadcast and the data connections *)

\* the events of the broadcasts b that were written to connection c
written_to(b, c) ==
    LET RECURSIVE pick(_)
        pick(i) == IF i > Len(b) THEN <<>>
                   ELSE IF c \in b[i].to THEN <<b[i].message>> \o pick(i + 1)
                   ELSE pick(i + 1)
    IN  pick(1)

\* C37: the events are taken off audio_queue in the order they were put;
\* each is written to every connection that is a data connection, and open,
\* when it is taken, and to no other; an event taken with no data
\* connection is written to none; the terminal client receives, in that
\* order, the events written to its connection and nothing else.
C37_BroadcastInOrder ==
    LET b == stt_server.broadcast
    IN  /\ Len(b) + Len(stt_server.audio_queue) = Len(stt_server.queued)
        /\ \A i \in 1..Len(b) :
               /\ b[i].message = stt_server.queued[i]
               /\ b[i].to = b[i].connected \cap b[i].open
        /\ \A i \in 1..Len(stt_server.audio_queue) :
               stt_server.audio_queue[i] = stt_server.queued[Len(b) + i]
        /\ inbound.received[TerminalConnection] = written_to(b, TerminalConnection)

\* two events were broadcast: the first was taken with no data connection
\* and dropped, the second was written to the two clients, which had
\* connected in the meantime
C37_Witness ==
    /\ Len(stt_server.broadcast) = 2
    /\ stt_server.broadcast[1].connected = {}
    /\ stt_server.broadcast[2].to = {TerminalConnection, PeerConnection}
    /\ stt_server.broadcast[1].message # stt_server.broadcast[2].message
    /\ inbound.received[TerminalConnection] = <<stt_server.broadcast[2].message>>

\* C38: when the finally clause of a data handler has run, no exception has
\* left it, the connection is not among the data connections and
\* recorder.clear_audio_queue() has been called.
C38_CleanupCompletes ==
    stt_server.cleanup.websocket # "none" =>
        /\ ~stt_server.cleanup.raised
        /\ stt_server.cleanup.websocket \notin stt_server.data_connections
        /\ stt_server.cleanup.cleared

-----------------------------------------------------------------------------
(* C39: the start of the server *)

\* C39: run() always comes to report the server ready for connections or to
\* shutdown(), also when the recorder thread fails to construct the
\* recorder.
C39_StartupProgress ==
    (stt_server.run = "not_started") ~> (stt_server.run \in {"serving", "shutdown"})

-----------------------------------------------------------------------------
(* C40: the batch editor *)

\* C40: audio_buffer.clear() has never run while is_recording was true, and
\* whenever is_recording is true the state of the status bar is
\* STATE_RECORDING.
C40_PendingTranscriptionKeepsRecording ==
    /\ minimal_editor.cleared.ran => ~minimal_editor.cleared.is_recording
    /\ minimal_editor.is_recording => minimal_editor.status_bar.state = "recording"

====
